---- MODULE Spec2Model ----
(***************************************************************************)
(* Order admission, approval, cancellation and the stock ledger of the     *)
(* restaurant backend (src/routes/orderRoutes.js), with the mapping and    *)
(* ingredient endpoints of src/routes/stockRoutes.js that feed the ledger. *)
(*                                                                         *)
(* Money is counted in 1/10000 of the currency unit (9.00 is 90000), so    *)
(* that whole-number percentage discounts stay exact; the 0.01 tolerance   *)
(* of the price checks is 100.  Ingredient quantities are whole numbers of *)
(* the ingredient's unit.  SQL NULL and absent ids are Null.               *)
(***************************************************************************)
EXTENDS Integers, Sequences, FiniteSets, Bags, TLC

\* ---------------------------------------------------------------- bounds
MaxOrders == 2
MaxStock == 2
MaxQty == 2
MaxRecent == 1

Null == 0
Ing == {1, 2}
Procs == {1, 2}

Cents(c) == c * 100
Tolerance == 100

\* ------------------------------------------------------- catalog (rows)
\* menu_items rows read by the price verifier; item 4 is unavailable, item 5
\* consumes no ingredient.
NoPrice == -1
menu_items ==
  [i \in 1..5 |->
     CASE i = 1 -> [availability |-> TRUE, regular_price |-> Cents(900), sale_price |-> NoPrice]
       [] i = 2 -> [availability |-> TRUE, regular_price |-> Cents(500), sale_price |-> Cents(400)]
       [] i = 3 -> [availability |-> TRUE, regular_price |-> Cents(300), sale_price |-> NoPrice]
       [] i = 4 -> [availability |-> FALSE, regular_price |-> Cents(200), sale_price |-> NoPrice]
       [] OTHER -> [availability |-> TRUE, regular_price |-> Cents(200), sale_price |-> NoPrice]]

\* menu_item_supplements rows: supplement 1 is offered on menu item 1 only.
menu_item_supplements ==
  { [menu_item_id |-> 1, supplement_id |-> 1, additional_price |-> Cents(100)] }

\* breakfasts rows.
breakfasts == [b \in {1} |-> [availability |-> TRUE, price |-> Cents(1200)]]

\* breakfast_option_groups rows: group 1 belongs to breakfast 1 and is
\* required; group 2 is a reusable optional group (breakfast_id NULL); group
\* 3 is a required group of breakfast 1 that has no option yet.
breakfast_option_groups ==
  { [id |-> 1, breakfast_id |-> 1, is_required |-> TRUE],
    [id |-> 2, breakfast_id |-> Null, is_required |-> FALSE],
    [id |-> 3, breakfast_id |-> 1, is_required |-> TRUE] }

\* breakfast_option_group_mappings rows: breakfast 1 uses reusable group 2.
breakfast_option_group_mappings == { [breakfast_id |-> 1, option_group_id |-> 2] }

\* breakfast_options rows.
breakfast_options ==
  { [id |-> 1, breakfast_id |-> 1, group_id |-> 1, additional_price |-> 0],
    [id |-> 2, breakfast_id |-> 1, group_id |-> 1, additional_price |-> Cents(100)],
    [id |-> 3, breakfast_id |-> Null, group_id |-> 2, additional_price |-> Cents(50)] }

\* promotions rows that are active now: 1 is store-wide, 2 is scoped to item 1.
promotions ==
  { [id |-> 1, discount_percentage |-> 10, item_id |-> Null],
    [id |-> 2, discount_percentage |-> 50, item_id |-> 1] }

\* tables rows (id, table_number, status at start).
TableIds == {1, 2}
table_number == [t \in TableIds |-> IF t = 1 THEN 1 ELSE 5]
InitTables == [t \in TableIds |-> IF t = 1 THEN "available" ELSE "reserved"]

\* Ingredient-consumption mappings, entity id -> [ingredient -> quantity],
\* quantity 0 standing for "no row".
NoRows == [i \in Ing |-> 0]
OneRow(i, q) == [j \in Ing |-> IF j = i THEN q ELSE 0]
InitMenuItemIngredients ==
  [m \in 1..5 |-> CASE m = 1 -> OneRow(1, 1) [] m = 2 -> OneRow(2, 1) [] OTHER -> NoRows]
supplement_ingredients == [s \in {1} |-> OneRow(2, 1)]
breakfast_ingredients == [b \in {1} |-> OneRow(1, 1)]
breakfast_option_ingredients ==
  [o \in 1..3 |-> IF o = 2 THEN OneRow(2, 1) ELSE NoRows]

\* ------------------------------------------------------- small helpers
Abs(x) == IF x < 0 THEN -x ELSE x
SeqToSet(s) == { s[k] : k \in 1..Len(s) }

RECURSIVE SumSeq(_)
SumSeq(s) == IF s = <<>> THEN 0 ELSE Head(s) + SumSeq(Tail(s))

\* DECIMAL(10,2) column: a written value is rounded half up to whole cents.
RoundToCents(x) == ((x + 50) \div 100) * 100

\* Rows of one mapping table for one entity, in primary-key order.
HasRow(r) == r[2] > 0
MappingRows(f) == SelectSeq([i \in 1..Cardinality(Ing) |-> <<i, f[i]>>], HasRow)

\* ------------------------------------------------------- stock ledger
\* A JavaScript Map as the sequence of its <<key, value>> entries in
\* insertion order; MapAdd is  m.set(k, (m.get(k) || 0) + v).
MapHas(m, k) == \E n \in 1..Len(m) : m[n][1] = k
\* The same without the read of the entry: m.set(k, v).
MapSet(m, k, v) ==
  IF MapHas(m, k)
    THEN [n \in 1..Len(m) |-> IF m[n][1] = k THEN <<k, v>> ELSE m[n]]
    ELSE Append(m, <<k, v>>)
MapAdd(m, k, v) ==
  IF MapHas(m, k)
    THEN [n \in 1..Len(m) |-> IF m[n][1] = k THEN <<k, m[n][2] + v>> ELSE m[n]]
    ELSE Append(m, <<k, v>>)
MapGet(m, k) ==
  IF MapHas(m, k) THEN (CHOOSE e \in SeqToSet(m) : e[1] = k)[2] ELSE 0

\* for (const ing of rows) ingredientUsage.set(id, (get(id) || 0) + qty * mult)
RECURSIVE AddRows(_, _, _)
AddRows(m, rows, mult) ==
  IF rows = <<>> THEN m
  ELSE AddRows(MapAdd(m, Head(rows)[1], Head(rows)[2] * mult), Tail(rows), mult)

\* One order_items row: menu item, then its primary supplement, then breakfast.
AddOrderItem(m, item, mii) ==
  LET m1 == IF item.item_id # Null
              THEN AddRows(m, MappingRows(mii[item.item_id]), item.quantity) ELSE m
      m2 == IF item.supplement_id # Null
              THEN AddRows(m1, MappingRows(supplement_ingredients[item.supplement_id]), item.quantity)
              ELSE m1
  IN  IF item.breakfast_id # Null
        THEN AddRows(m2, MappingRows(breakfast_ingredients[item.breakfast_id]), item.quantity)
        ELSE m2

RECURSIVE AddOrderItems(_, _, _)
AddOrderItems(m, orderItems, mii) ==
  IF orderItems = <<>> THEN m
  ELSE AddOrderItems(AddOrderItem(m, Head(orderItems), mii), Tail(orderItems), mii)

\* Selected breakfast options are counted once per breakfast_order_options row.
RECURSIVE AddBreakfastOptions(_, _)
AddBreakfastOptions(m, breakfastOptions) ==
  IF breakfastOptions = <<>> THEN m
  ELSE AddBreakfastOptions(
         AddRows(m, MappingRows(breakfast_option_ingredients[Head(breakfastOptions)]), 1),
         Tail(breakfastOptions))

\* The ingredient_id -> required quantity map of an order, under the
\* menu-item mappings mii that the transaction reads.
ingredientUsage(orderItems, breakfastOptions, mii) ==
  AddBreakfastOptions(AddOrderItems(<<>>, orderItems, mii), breakfastOptions)

\* The deduction loop without its stock check.
SufficientStockUnchecked(availableStock, requiredQuantity) == TRUE
\* if (availableStock < requiredQuantity) -> InsufficientStock
SufficientStock(availableStock, requiredQuantity) == availableStock >= requiredQuantity

\* ------------------------------------------------------- price verifier
\* rows.reduce((sum, r) => sum + parseFloat(r.additional_price || 0), 0)
RECURSIVE SumAdditional(_)
SumAdditional(rows) ==
  IF rows = {} THEN 0
  ELSE LET x == CHOOSE y \in rows : TRUE IN x.additional_price + SumAdditional(rows \ {x})

\* supplement_ids of a cart line, with the legacy supplement_id appended
\* when it is not already listed.
supplementIds(item) ==
  IF item.supplement_id # Null /\ item.supplement_id \notin SeqToSet(item.supplement_ids)
    THEN Append(item.supplement_ids, item.supplement_id)
    ELSE item.supplement_ids

\* sale price if set, else regular price
BasePrice(row) == IF row.sale_price # NoPrice THEN row.sale_price ELSE row.regular_price

FoundSupplements(item_id, ids) ==
  { r \in menu_item_supplements : r.menu_item_id = item_id /\ r.supplement_id \in SeqToSet(ids) }

\* ------------------------------------------------------- double arithmetic
\* Amounts are decimals in units of 1/10000; the handler parses them into
\* IEEE-754 doubles.  The double nearest to an amount v is m / 2^k with
\* k = 52 - Binade(v); its distance from v is kept in units of
\* 1 / (10000 * 2^59), the scale of the double nearest to 0.01.  Amounts are
\* 0 or at least 0.01 and stay below 2048.
RECURSIVE Pow2(_)
Pow2(n) == IF n = 0 THEN 1 ELSE 2 * Pow2(n - 1)
RECURSIVE Pow2Mod(_)
Pow2Mod(n) == IF n = 0 THEN 1 ELSE (2 * Pow2Mod(n - 1)) % 10000
RECURSIVE Log2Floor(_)
Log2Floor(q) == IF q < 2 THEN 0 ELSE 1 + Log2Floor(q \div 2)
RECURSIVE Doublings(_)
Doublings(v) == IF v >= 10000 THEN 0 ELSE 1 + Doublings(2 * v)
\* floor(log2(v / 10000)), the exponent of the double
Binade(v) == IF v >= 10000 THEN Log2Floor(v \div 10000) ELSE 0 - Doublings(v)

\* parseFloat(x) - x: what parsing to the nearest double adds to the amount
\* (the remainder 5000, a tie, cannot occur as 2^k is a multiple of 16).
parseFloatError(v) ==
  IF v = 0 THEN 0
  ELSE LET e == Binade(v)
           r == ((v % 10000) * Pow2Mod(52 - e)) % 10000
       IN  (IF r < 5000 THEN 0 - r ELSE 10000 - r) * Pow2(7 + e)

\* Math.abs(a - b) > 0.01 on doubles: the subtraction of two doubles this
\* close is exact, so a decimal difference of exactly 0.01 exceeds the
\* double 0.01 when the parse errors of a and b add up to more than the
\* parse error of 0.01.
ExceedsTolerance(a, b) ==
  IF Abs(a - b) # Tolerance THEN Abs(a - b) > Tolerance
  ELSE IF a > b THEN parseFloatError(a) - parseFloatError(b) > parseFloatError(Tolerance)
  ELSE parseFloatError(b) - parseFloatError(a) > parseFloatError(Tolerance)

\* Math.abs(parseFloat(unit_price) - itemTotal) > 0.01
PriceMismatch(unit_price, itemTotal) == ExceedsTolerance(unit_price, itemTotal)

\* One menu-item cart line: [err, amount]; err is "" when the line passes.
VerifyItem(item) ==
  LET ids == supplementIds(item)
      found == FoundSupplements(item.item_id, ids)
      itemTotal == BasePrice(menu_items[item.item_id]) + SumAdditional(found)
  IN  IF item.item_id <= 0 \/ item.quantity <= 0 \/ item.unit_price <= 0
        THEN [err |-> "ValidationError", amount |-> 0]
      ELSE IF item.item_id \notin DOMAIN menu_items \/ ~menu_items[item.item_id].availability
        THEN [err |-> "ItemUnavailable", amount |-> 0]
      ELSE IF Len(ids) > 0 /\ Cardinality(found) # Len(ids)
        THEN [err |-> "InvalidSupplement", amount |-> 0]
      ELSE IF PriceMismatch(item.unit_price, itemTotal)
        THEN [err |-> "PriceMismatch", amount |-> 0]
      ELSE [err |-> "", amount |-> itemTotal * item.quantity]

\* Option groups of a breakfast: its own groups and the mapped reusable
\* groups, each only when it has at least one option.
GroupsOf(breakfast_id) ==
  { g \in breakfast_option_groups :
      /\ \E bo \in breakfast_options : bo.group_id = g.id
      /\ \/ g.breakfast_id = breakfast_id
         \/ /\ g.breakfast_id = Null
            /\ \E bogm \in breakfast_option_group_mappings :
                 bogm.breakfast_id = breakfast_id /\ bogm.option_group_id = g.id }

FoundOptions(breakfast_id, option_ids) ==
  { bo \in breakfast_options :
      /\ bo.breakfast_id = breakfast_id \/ bo.breakfast_id = Null
      /\ bo.id \in SeqToSet(option_ids)
      /\ \E g \in breakfast_option_groups : g.id = bo.group_id }

\* The filter without its is_required test.
missingGroups(breakfast_id, option_ids) ==
  { g \in GroupsOf(breakfast_id) :
      g.id \notin { bo.group_id : bo \in FoundOptions(breakfast_id, option_ids) } }
\* requiredGroups.filter(g => !selectedGroups.has(g))
missingRequiredGroups(breakfast_id, option_ids) ==
  { g \in GroupsOf(breakfast_id) :
      g.is_required /\ g.id \notin { bo.group_id : bo \in FoundOptions(breakfast_id, option_ids) } }

\* providedPrice + 0.01 < expectedPrice
PriceBelowExpected(providedPrice, expectedPrice) == providedPrice + Tolerance < expectedPrice

\* One breakfast cart line: [err, expectedPrice]; a higher provided price
\* replaces the computed one.
VerifyBreakfast(item) ==
  LET found == FoundOptions(item.breakfast_id, item.option_ids)
      expectedPrice == breakfasts[item.breakfast_id].price
                         + (IF Len(item.option_ids) > 0 THEN SumAdditional(found) ELSE 0)
  IN  IF item.breakfast_id <= 0 \/ item.quantity <= 0 \/ item.unit_price <= 0
        THEN [err |-> "ValidationError", expectedPrice |-> 0]
      ELSE IF item.breakfast_id \notin DOMAIN breakfasts \/ ~breakfasts[item.breakfast_id].availability
        THEN [err |-> "ItemUnavailable", expectedPrice |-> 0]
      ELSE IF Len(item.option_ids) > 0 /\ Cardinality(found) # Len(item.option_ids)
        THEN [err |-> "InvalidOption", expectedPrice |-> 0]
      ELSE IF missingRequiredGroups(item.breakfast_id, item.option_ids) # {}
        THEN [err |-> "MissingRequiredGroup", expectedPrice |-> 0]
      ELSE IF PriceBelowExpected(item.unit_price, expectedPrice)
        THEN [err |-> "PriceMismatch", expectedPrice |-> 0]
      ELSE [err |-> "", expectedPrice |-> IF item.unit_price > expectedPrice
                                            THEN item.unit_price ELSE expectedPrice]

\* for (const item of items): first failing line stops the loop.
RECURSIVE VerifyItems(_, _)
VerifyItems(items, total) ==
  IF items = <<>> THEN [err |-> "", total |-> total]
  ELSE LET r == VerifyItem(Head(items))
       IN  IF r.err # "" THEN [err |-> r.err, total |-> total]
           ELSE VerifyItems(Tail(items), total + r.amount)

\* option_ids.filter(id => !entry.option_ids.includes(id)), pushed in order
RECURSIVE PushNew(_, _)
PushNew(have, ids) ==
  IF ids = <<>> THEN have
  ELSE PushNew(IF Head(ids) \in SeqToSet(have) THEN have ELSE Append(have, Head(ids)), Tail(ids))

\* breakfastMap: entries in insertion order, keyed by breakfast_id; the
\* unit price of an entry is the one of the first line that created it.
breakfastMapAdd(bm, item, expectedPrice) ==
  IF \E n \in 1..Len(bm) : bm[n].breakfast_id = item.breakfast_id
    THEN [n \in 1..Len(bm) |->
            IF bm[n].breakfast_id = item.breakfast_id
              THEN [bm[n] EXCEPT !.quantity = @ + item.quantity,
                                 !.option_ids = PushNew(@, item.option_ids)]
              ELSE bm[n]]
    ELSE Append(bm, [breakfast_id |-> item.breakfast_id, quantity |-> item.quantity,
                     unit_price |-> expectedPrice, option_ids |-> PushNew(<<>>, item.option_ids)])

RECURSIVE VerifyBreakfasts(_, _, _)
VerifyBreakfasts(breakfastItems, total, bm) ==
  IF breakfastItems = <<>> THEN [err |-> "", total |-> total, breakfastMap |-> bm]
  ELSE LET item == Head(breakfastItems)
           r == VerifyBreakfast(item)
       IN  IF r.err # "" THEN [err |-> r.err, total |-> total, breakfastMap |-> bm]
           ELSE VerifyBreakfasts(Tail(breakfastItems), total + r.expectedPrice * item.quantity,
                                 breakfastMapAdd(bm, item, r.expectedPrice))

\* Promotion overlay: the cart total recomputed from catalog prices.
PromoItemPrice(item, promo) ==
  LET itemPrice == BasePrice(menu_items[item.item_id]) * item.quantity
                     + SumAdditional(FoundSupplements(item.item_id, supplementIds(item)))
                         * item.quantity
  IN  IF promo.item_id = Null \/ item.item_id = promo.item_id
        THEN (itemPrice * (100 - promo.discount_percentage)) \div 100
        ELSE itemPrice

PromoBreakfastOptions(item) ==
  { bo \in breakfast_options : bo.breakfast_id = item.breakfast_id /\ bo.id \in SeqToSet(item.option_ids) }

PromoBreakfastPrice(item) ==
  breakfasts[item.breakfast_id].price * item.quantity
    + SumAdditional(PromoBreakfastOptions(item)) * item.quantity

RECURSIVE PromoItemsTotal(_, _)
PromoItemsTotal(items, promo) ==
  IF items = <<>> THEN 0
  ELSE PromoItemPrice(Head(items), promo) + PromoItemsTotal(Tail(items), promo)

RECURSIVE PromoBreakfastsTotal(_)
PromoBreakfastsTotal(breakfastItems) ==
  IF breakfastItems = <<>> THEN 0
  ELSE PromoBreakfastPrice(Head(breakfastItems)) + PromoBreakfastsTotal(Tail(breakfastItems))

promoCalculatedPrice(req, promo) ==
  PromoItemsTotal(req.items, promo) + PromoBreakfastsTotal(req.breakfastItems)

\* calculatedTotal after the promotion overlay.
calculatedTotal(req, lineTotal) ==
  LET promo == { r \in promotions : r.id = req.promotion_id }
  IN  IF req.promotion_id # Null /\ promo # {}
        THEN promoCalculatedPrice(req, CHOOSE r \in promo : TRUE)
        ELSE lineTotal

\* Math.abs(providedPrice - calculatedTotal) > 0.01
TotalPriceMismatch(providedPrice, total) == ExceedsTolerance(providedPrice, total)

\* ------------------------------------------------------- state
VARIABLES
  orders,                \* orders rows with their order_items / options, by id
  quantity_in_stock,     \* ingredients.quantity_in_stock, committed
  ingredients,           \* ids of the ingredients rows that exist
  stock_transactions,    \* bag of committed stock_transactions rows
  menu_item_ingredients, \* menu_item_ingredients mapping rows
  tables,                \* tables.status by table id
  device_order_limits,   \* device_order_limits rows, oldest first
  recentRequests,        \* process-local duplicate guard (set of hashes)
  pc,                    \* position of each request slot in its handler
  loc,                   \* locals and open transaction of each request slot
  resp,                  \* response of a slot whose request has returned
  wasApproved            \* history: orders that were approved successfully

vars == <<orders, quantity_in_stock, ingredients, stock_transactions,
          menu_item_ingredients, tables, device_order_limits, recentRequests,
          pc, loc, resp, wasApproved>>

EmptyLoc ==
  [op |-> "", oid |-> Null, newOrder |-> <<>>, fps |-> <<>>,
   usage |-> <<>>, writes |-> <<>>, approved |-> 0, status |-> "",
   restoreStock |-> FALSE, autoApprove |-> FALSE]
NoResp == [op |-> "", oid |-> Null, code |-> 0, err |-> "", n |-> 0, events |-> {}]

Init ==
  /\ orders = <<>>
  /\ quantity_in_stock = [i \in Ing |-> MaxStock]
  /\ ingredients = Ing
  /\ stock_transactions = EmptyBag
  /\ menu_item_ingredients = InitMenuItemIngredients
  /\ tables = InitTables
  /\ device_order_limits = <<>>
  /\ recentRequests = {}
  /\ pc = [p \in Procs |-> "idle"]
  /\ loc = [p \in Procs |-> EmptyLoc]
  /\ resp = [p \in Procs |-> NoResp]
  /\ wasApproved = {}

\* res.status(code).json(...): the handler returns; its transaction, if any,
\* is over and its row locks are released.
RespondWith(p, op, oid, code, err, n, events) ==
  /\ pc' = [pc EXCEPT ![p] = "done"]
  /\ loc' = [loc EXCEPT ![p] = EmptyLoc]
  /\ resp' = [resp EXCEPT ![p] = [op |-> op, oid |-> oid, code |-> code, err |-> err,
                                  n |-> n, events |-> events]]

\* io.to(room).emit(type, payload) about the order or table with this id.
Event(type, id) == [type |-> type, id |-> id]

\* A handler whose first io.emit came before its last statement that can
\* fail would have emitted this by the time it answers an error.
EmittedBeforeCommit(op, oid) ==
  { Event(IF op = "post" THEN "newOrder"
          ELSE IF op = "cancel" THEN "orderCancelled" ELSE "orderApproved", oid) }
\* Every io.emit of the handlers follows the commit (or, in PUT, the
\* UPDATE): a handler that returns earlier has emitted nothing.
EmittedWithoutCommit(op, oid) == {}

\* An answer given on a path that did not commit.
Respond(p, op, oid, code, err, n) ==
  RespondWith(p, op, oid, code, err, n, EmittedWithoutCommit(op, oid))

\* The client takes the response; the slot is free for the next request.
Return(p) ==
  /\ pc[p] = "done"
  /\ pc' = [pc EXCEPT ![p] = "idle"]
  /\ resp' = [resp EXCEPT ![p] = NoResp]
  /\ UNCHANGED <<orders, quantity_in_stock, ingredients, stock_transactions,
                 menu_item_ingredients, tables, device_order_limits, recentRequests,
                 loc, wasApproved>>

\* ------------------------------------------------------- row locks
\* An orders row is locked (SELECT ... FOR UPDATE) from the lock step of
\* Approve / Cancel until that transaction commits or rolls back.
\* The same SELECT without FOR UPDATE takes no lock.
OrderReadUnlocked(o) == FALSE
OrderLocked(o) == \E q \in Procs : pc[q] \in {"approve", "cancel"} /\ loc[q].oid = o

\* An ingredients row is locked by the transaction that read it FOR UPDATE.
WrittenIngredients(q) == { loc[q].writes[n].ingredient_id : n \in 1..Len(loc[q].writes) }
IngredientLockedByOther(p, i) == \E q \in Procs \ {p} : i \in WrittenIngredients(q)

\* Rows of stock_transactions for one order.
existingDeductions(o) ==
  { t \in BagToSet(stock_transactions) : t.order_id = o /\ t.transaction_type = "deduction" }
RestorationReason == "Order cancellation stock restoration"
\* The cancellation without its look-up of earlier restorations.
restorationsUnchecked(o) == {}
\* SELECT id FROM stock_transactions WHERE order_id = ? AND reason = ? LIMIT 1
existingRestorations(o) ==
  { t \in BagToSet(stock_transactions) : t.order_id = o /\ t.reason = RestorationReason }

\* Commit of the buffered ingredient writes and ledger rows of slot p,
\* recorded for order o.
CommittedStock(p) ==
  [i \in Ing |->
     IF i \in WrittenIngredients(p)
       THEN (CHOOSE w \in SeqToSet(loc[p].writes) : w.ingredient_id = i).quantity
       ELSE quantity_in_stock[i]]
LedgerRows(p, o) ==
  { [ingredient_id |-> w.ingredient_id, quantity |-> w.delta,
     transaction_type |-> w.transaction_type, order_id |-> o, reason |-> w.reason]
    : w \in SeqToSet(loc[p].writes) }
\* A commit of the stock updates whose INSERTs into stock_transactions are
\* left out.
LedgerUnwritten(p, o) == stock_transactions
CommittedLedger(p, o) == stock_transactions (+) SetToBag(LedgerRows(p, o))

\* A handler that returned without connection.rollback() on a connection
\* whose statements were not in a transaction: the writes made so far stay.
WithoutRollbackStock(p) == CommittedStock(p)
\* connection.rollback(): nothing the transaction wrote is kept.
RolledBackStock(p) == quantity_in_stock
WithoutRollbackLedger(p) == CommittedLedger(p, loc[p].oid)
RolledBackLedger(p) == stock_transactions

\* Frame of the steps that touch only the request slot.
DbUnchanged ==
  UNCHANGED <<orders, quantity_in_stock, ingredients, stock_transactions,
              menu_item_ingredients, tables, device_order_limits, recentRequests,
              wasApproved>>

\* Frame of a step that ends in a rollback (or writes nothing): the stock
\* and the ledger are what the rollback leaves.
RollbackBy(p) ==
  /\ quantity_in_stock' = RolledBackStock(p)
  /\ stock_transactions' = RolledBackLedger(p)
  /\ UNCHANGED <<orders, ingredients, menu_item_ingredients, tables,
                 device_order_limits, recentRequests, wasApproved>>

\* ------------------------------------------------------- deduction loop
\* One iteration of  for (const [ingredientId, requiredQuantity] of
\* ingredientUsage): lock the row, check it, buffer the UPDATE and the
\* 'deduction' ledger row.  Waits while another transaction holds the row.
DeductIngredient(p, op) ==
  LET ingredientId == Head(loc[p].usage)[1]
      requiredQuantity == Head(loc[p].usage)[2]
      availableStock == quantity_in_stock[ingredientId]
  IN  /\ loc[p].usage # <<>>
      /\ IF ingredientId \notin ingredients
           THEN /\ Respond(p, op, loc[p].oid, 400, "IngredientNotFound", Len(loc[p].writes))
                /\ RollbackBy(p)
         ELSE /\ ~IngredientLockedByOther(p, ingredientId)
              /\ IF ~SufficientStock(availableStock, requiredQuantity)
                   THEN /\ Respond(p, op, loc[p].oid, 400, "InsufficientStock", Len(loc[p].writes))
                        /\ RollbackBy(p)
                   ELSE /\ loc' = [loc EXCEPT
                             ![p].usage = Tail(@),
                             ![p].writes = Append(@,
                                [ingredient_id |-> ingredientId,
                                 quantity |-> availableStock - requiredQuantity,
                                 delta |-> -requiredQuantity,
                                 transaction_type |-> "deduction",
                                 reason |-> "Order approval"])]
                        /\ UNCHANGED <<pc, resp>>
                        /\ DbUnchanged

\* ------------------------------------------------------- POST /orders/:id/approve
\* if (order.approved && order.status !== 'cancelled')
AlreadyApproved(order) == order.approved = 1 /\ order.status # "cancelled"

\* Authorisation and id validation, before the transaction is opened.
ApproveRequest(p, isStaff, id) ==
  /\ pc[p] = "idle"
  /\ IF ~isStaff THEN Respond(p, "approve", id, 403, "Forbidden", 0)
     ELSE IF id <= 0 THEN Respond(p, "approve", id, 400, "ValidationError", 0)
     ELSE /\ pc' = [pc EXCEPT ![p] = "approve_lock"]
          /\ loc' = [loc EXCEPT ![p] = [EmptyLoc EXCEPT !.op = "approve", !.oid = id]]
          /\ UNCHANGED resp
  /\ DbUnchanged

\* SELECT ... FROM orders WHERE id = ? FOR UPDATE, the two idempotency
\* checks and the computation of ingredientUsage.
ApproveLock(p) ==
  LET o == loc[p].oid IN
  /\ pc[p] = "approve_lock"
  /\ IF o > Len(orders) THEN Respond(p, "approve", o, 404, "NotFound", 0)
     ELSE /\ ~OrderLocked(o)
          /\ IF AlreadyApproved(orders[o])
               THEN Respond(p, "approve", o, 400, "AlreadyApproved", 0)
             ELSE IF existingDeductions(o) # {}
               THEN Respond(p, "approve", o, 400, "AlreadyDeducted", 0)
             ELSE /\ pc' = [pc EXCEPT ![p] = "approve"]
                  /\ loc' = [loc EXCEPT ![p].usage =
                       ingredientUsage(orders[o].items, orders[o].options, menu_item_ingredients)]
                  /\ UNCHANGED resp
  /\ RollbackBy(p)

ApproveDeduct(p) ==
  /\ pc[p] = "approve"
  /\ DeductIngredient(p, "approve")

\* UPDATE orders SET approved = 1, status = 'preparing'; commit.
ApproveCommit(p) ==
  LET o == loc[p].oid IN
  /\ pc[p] = "approve"
  /\ loc[p].usage = <<>>
  /\ orders' = [orders EXCEPT ![o].approved = 1, ![o].status = "preparing"]
  /\ quantity_in_stock' = CommittedStock(p)
  /\ stock_transactions' = CommittedLedger(p, o)
  /\ wasApproved' = wasApproved \cup {o}
  /\ RespondWith(p, "approve", o, 200, "", Len(loc[p].writes), {Event("orderApproved", o)})
  /\ UNCHANGED <<ingredients, menu_item_ingredients, tables, device_order_limits, recentRequests>>

\* ------------------------------------------------------- POST /orders/:id/cancel
CancelRequest(p, isStaff, id, restoreStock) ==
  /\ pc[p] = "idle"
  /\ IF ~isStaff THEN Respond(p, "cancel", id, 403, "Forbidden", 0)
     ELSE IF id <= 0 THEN Respond(p, "cancel", id, 400, "ValidationError", 0)
     ELSE /\ pc' = [pc EXCEPT ![p] = "cancel_lock"]
          /\ loc' = [loc EXCEPT ![p] =
               [EmptyLoc EXCEPT !.op = "cancel", !.oid = id, !.restoreStock = restoreStock]]
          /\ UNCHANGED resp
  /\ DbUnchanged

\* The same test without the order's approved flag.
RestorationOfAnyOrder(restoreStock, order) == restoreStock = TRUE
\* if (restoreStock === true && orderRows[0].approved)
RestorationRequested(restoreStock, order) == restoreStock = TRUE /\ order.approved = 1

\* Lock the order, reject a cancelled order, run the restoration guards and
\* recompute ingredientUsage when stock is to be restored.
CancelLock(p) ==
  LET o == loc[p].oid IN
  /\ pc[p] = "cancel_lock"
  /\ IF o > Len(orders) THEN Respond(p, "cancel", o, 404, "NotFound", 0)
     ELSE /\ ~OrderLocked(o)
          /\ IF orders[o].status = "cancelled"
               THEN Respond(p, "cancel", o, 400, "AlreadyCancelled", 0)
             ELSE IF RestorationRequested(loc[p].restoreStock, orders[o]) /\ existingRestorations(o) # {}
               THEN Respond(p, "cancel", o, 400, "AlreadyRestored", 0)
             ELSE /\ pc' = [pc EXCEPT ![p] = "cancel"]
                  /\ loc' = [loc EXCEPT ![p].usage =
                       IF RestorationRequested(loc[p].restoreStock, orders[o]) /\ existingDeductions(o) # {}
                         THEN ingredientUsage(orders[o].items, orders[o].options, menu_item_ingredients)
                         ELSE <<>>]
                  /\ UNCHANGED resp
  /\ RollbackBy(p)

\* One iteration of  for (const [ingredientId, qtyToRestore] of ingredientUsage).
CancelRestore(p) ==
  LET ingredientId == Head(loc[p].usage)[1]
      qtyToRestore == Head(loc[p].usage)[2]
      currentQty == quantity_in_stock[ingredientId]
  IN  /\ pc[p] = "cancel"
      /\ loc[p].usage # <<>>
      /\ IF ingredientId \notin ingredients
           THEN /\ Respond(p, "cancel", loc[p].oid, 400, "IngredientNotFound", Len(loc[p].writes))
                /\ RollbackBy(p)
         ELSE /\ ~IngredientLockedByOther(p, ingredientId)
              /\ loc' = [loc EXCEPT
                   ![p].usage = Tail(@),
                   ![p].writes = Append(@,
                      [ingredient_id |-> ingredientId,
                       quantity |-> currentQty + qtyToRestore,
                       delta |-> qtyToRestore,
                       transaction_type |-> "addition",
                       reason |-> RestorationReason])]
              /\ UNCHANGED <<pc, resp>>
              /\ DbUnchanged

\* UPDATE orders SET status = 'cancelled', approved = 0; commit.
CancelCommit(p) ==
  LET o == loc[p].oid IN
  /\ pc[p] = "cancel"
  /\ loc[p].usage = <<>>
  /\ orders' = [orders EXCEPT ![o].approved = 0, ![o].status = "cancelled"]
  /\ quantity_in_stock' = CommittedStock(p)
  /\ stock_transactions' = CommittedLedger(p, o)
  /\ RespondWith(p, "cancel", o, 200, "", Len(loc[p].writes), {Event("orderCancelled", o)})
  /\ UNCHANGED <<ingredients, menu_item_ingredients, tables, device_order_limits,
                 recentRequests, wasApproved>>

\* ------------------------------------------------------- PUT /orders/:id
\* Authorisation, validation of the body and the unlocked SELECT of the row.
PutRead(p, isStaff, id, approved) ==
  /\ pc[p] = "idle"
  /\ IF ~isStaff THEN Respond(p, "put", id, 403, "Forbidden", 0)
     ELSE IF id <= 0 \/ approved \notin {0, 1}
       THEN Respond(p, "put", id, 400, "ValidationError", 0)
     ELSE IF id > Len(orders) THEN Respond(p, "put", id, 404, "NotFound", 0)
     ELSE /\ pc' = [pc EXCEPT ![p] = "put"]
          /\ loc' = [loc EXCEPT ![p] =
               [EmptyLoc EXCEPT !.op = "put", !.oid = id, !.approved = approved,
                                !.status = orders[id].status]]
          /\ UNCHANGED resp
  /\ DbUnchanged

\* An UPDATE that sets the approved flag and leaves the status column alone.
PutKeepsStatus(approved, readStatus) == readStatus
\* approved ? 'preparing' : orderRows[0].status
PutStatus(approved, readStatus) == IF approved = 1 THEN "preparing" ELSE readStatus

\* UPDATE orders SET approved = ?, status = ? (autocommit; waits for the
\* row lock of an open Approve / Cancel transaction).
PutWrite(p) ==
  LET o == loc[p].oid IN
  /\ pc[p] = "put"
  /\ ~OrderLocked(o)
  /\ orders' = [orders EXCEPT ![o].approved = loc[p].approved,
                              ![o].status = PutStatus(loc[p].approved, loc[p].status)]
  /\ RespondWith(p, "put", o, 200, "", 0, {Event("orderApproved", o)})
  /\ UNCHANGED <<quantity_in_stock, ingredients, stock_transactions, menu_item_ingredients,
                 tables, device_order_limits, recentRequests, wasApproved>>

\* ------------------------------------------------------- POST /orders
\* sha256 of a string: equal digests for equal strings only.
Sha256(x) == <<"sha256", x>>
deviceFingerprint(req) == Sha256(req.deviceId)
ipFingerprint(req) == Sha256(req.origin)

\* uuidRegex.test(deviceId); "unknown" stands for a missing header.
ValidDeviceId(deviceId) == deviceId \notin {"unknown", "not-a-uuid"}

\* session_id || x-session-id || req.sessionID || staff fallback
sessionId(req) ==
  IF req.session_id # "" THEN req.session_id
  ELSE IF req.isStaffRequest THEN "staff-session" ELSE ""

\* Array.from(new Set([deviceFingerprint, ipFingerprint]))
limitFingerprints(req) ==
  IF deviceFingerprint(req) = ipFingerprint(req)
    THEN <<deviceFingerprint(req)>>
    ELSE <<deviceFingerprint(req), ipFingerprint(req)>>

\* DELETE FROM device_order_limits WHERE order_timestamp < NOW() - INTERVAL 1 HOUR
NotExpired(row) == ~row.expired
PurgeExpired(limits) == SelectSeq(limits, NotExpired)

\* SELECT COUNT(*) ... WHERE device_fingerprint IN (...) AND within the hour
orderCount(limits, req) ==
  Cardinality({ n \in 1..Len(limits) :
                  /\ limits[n].device_fingerprint \in SeqToSet(limitFingerprints(req))
                  /\ ~limits[n].expired })

\* if (orderCount >= 3)
RateLimit == 3
RateLimitExceeded(count) == count >= RateLimit

\* The same test outside the if (!isStaffRequest) block.
RateLimitedStaffToo(isStaffRequest, count) == RateLimitExceeded(count)
\* if (!isStaffRequest) { ... if (orderCount >= 3) ... }
RateLimited(isStaffRequest, count) == ~isStaffRequest /\ RateLimitExceeded(count)

\* sha256(JSON.stringify({items, breakfastItems, table_id, order_type,
\* total_price, sessionId, notes}))
orderHash(req) ==
  Sha256([items |-> req.items, breakfastItems |-> req.breakfastItems,
          table_id |-> req.table_id, order_type |-> req.order_type,
          total_price |-> req.total_price, sessionId |-> sessionId(req),
          notes |-> req.notes])

\* The guard without its recentRequests.has test.
DuplicateUnguarded(hash, recent) == FALSE
\* if (recentRequests.has(orderHash)) return 429
DuplicateOrder(hash, recent) == hash \in recent

\* Cart-shape validation, lines 109-124.
ShapeError(req) ==
  \/ req.items = <<>> /\ req.breakfastItems = <<>>
  \/ req.order_type \notin {"local", "delivery", "takeaway", "imported"}
  \/ req.order_type = "local" /\ req.table_id = Null
  \/ req.order_type = "delivery" /\ req.delivery_address = ""

\* SELECT id, status FROM tables WHERE id = ? OR table_number = ?; first row.
tableRows(table_id) == { t \in TableIds : t = table_id \/ table_number[t] = table_id }
tableRecord(table_id) == CHOOSE t \in tableRows(table_id) : \A u \in tableRows(table_id) : t <= u

\* order_items rows inserted for the menu-item cart lines.
RECURSIVE MenuOrderItems(_)
MenuOrderItems(items) ==
  IF items = <<>> THEN <<>>
  ELSE LET item == Head(items)
           ids == supplementIds(item)
       IN  <<[item_id |-> item.item_id, breakfast_id |-> Null, quantity |-> item.quantity,
              unit_price |-> RoundToCents(item.unit_price),
              supplement_id |-> IF Len(ids) > 0 THEN ids[1] ELSE Null]>>
           \o MenuOrderItems(Tail(items))

\* order_items rows inserted for the coalesced breakfasts.
BreakfastOrderItems(bm) ==
  [n \in 1..Len(bm) |->
     [item_id |-> Null, breakfast_id |-> bm[n].breakfast_id, quantity |-> bm[n].quantity,
      unit_price |-> RoundToCents(bm[n].unit_price), supplement_id |-> Null]]

\* breakfast_order_options rows of the order, in insertion order.
RECURSIVE BreakfastOrderOptions(_)
BreakfastOrderOptions(bm) ==
  IF bm = <<>> THEN <<>> ELSE Head(bm).option_ids \o BreakfastOrderOptions(Tail(bm))

\* An admission that approves every order on creation.
autoApproveAlways(isStaffRequest) == TRUE
\* const autoApprove = isStaffRequest
autoApprove(isStaffRequest) == isStaffRequest

\* The orders row and its child rows as the transaction inserts them.
NewOrder(req, total, bm, effectiveTableId) ==
  [status |-> IF autoApprove(req.isStaffRequest) THEN "preparing" ELSE "pending",
   approved |-> 0,
   order_type |-> req.order_type,
   table_id |-> IF req.order_type = "local" THEN effectiveTableId ELSE Null,
   total_price |-> RoundToCents(total),
   session_id |-> sessionId(req),
   items |-> MenuOrderItems(req.items) \o BreakfastOrderItems(bm),
   options |-> BreakfastOrderOptions(bm)]

\* Requests that are inside their transaction and will add an orders row.
OpenAdmissions == { q \in Procs : pc[q] \in {"post_begin", "post"} }

\* Everything the handler does before it opens its transaction: device id
\* check, rate limiter, session check, duplicate guard, cart validation,
\* price verification, table lookup (with the autocommitted UPDATE of the
\* table), promotion overlay and total check.  The first failing stage
\* returns; the writes made by the stages before it stay.
PostValidateWithin(p, req, maxOrders, maxRecent) ==
  LET isStaffRequest == req.isStaffRequest
      purged == IF isStaffRequest THEN device_order_limits ELSE PurgeExpired(device_order_limits)
      vi == VerifyItems(req.items, 0)
      vb == VerifyBreakfasts(req.breakfastItems, vi.total, <<>>)
      useTable == req.order_type = "local" /\ req.table_id # Null
      total == calculatedTotal(req, vb.total)
      stage ==
        IF ~isStaffRequest /\ ~ValidDeviceId(req.deviceId) THEN "device"
        ELSE IF RateLimited(isStaffRequest, orderCount(purged, req)) THEN "rate"
        ELSE IF sessionId(req) = "" THEN "session"
        ELSE IF DuplicateOrder(orderHash(req), recentRequests) THEN "duplicate"
        ELSE IF ShapeError(req) THEN "shape"
        ELSE IF vi.err # "" THEN "items"
        ELSE IF vb.err # "" THEN "breakfasts"
        ELSE IF useTable /\ tableRows(req.table_id) = {} THEN "table_missing"
        ELSE IF useTable /\ tables[tableRecord(req.table_id)] = "reserved" THEN "table_reserved"
        ELSE IF TotalPriceMismatch(req.total_price, total) THEN "total"
        ELSE "admitted"
      err ==
        CASE stage = "device" -> "ValidationError"
          [] stage = "rate" -> "RateLimitExceeded"
          [] stage = "session" -> "ValidationError"
          [] stage = "duplicate" -> "DuplicateOrder"
          [] stage = "shape" -> "ValidationError"
          [] stage = "items" -> vi.err
          [] stage = "breakfasts" -> vb.err
          [] stage = "table_missing" -> "TableNotFound"
          [] stage = "table_reserved" -> "TableReserved"
          [] stage = "total" -> "TotalPriceMismatch"
          [] OTHER -> ""
      effectiveTableId == IF useTable THEN tableRecord(req.table_id) ELSE req.table_id
  IN  /\ pc[p] = "idle"
      /\ stage = "admitted" => Len(orders) + Cardinality(OpenAdmissions) < maxOrders
      /\ stage \notin {"device", "rate", "session", "duplicate"}
           => Cardinality(recentRequests \cup {orderHash(req)}) <= maxRecent
      /\ device_order_limits' = IF stage = "device" THEN device_order_limits ELSE purged
      /\ recentRequests' =
           IF stage \in {"device", "rate", "session", "duplicate"}
             THEN recentRequests ELSE recentRequests \cup {orderHash(req)}
      /\ tables' =
           IF stage \in {"total", "admitted"} /\ useTable
             THEN [tables EXCEPT ![tableRecord(req.table_id)] = "occupied"]
             ELSE tables
      /\ IF stage = "admitted"
           THEN /\ pc' = [pc EXCEPT ![p] = IF autoApprove(isStaffRequest)
                                               THEN "post_begin" ELSE "post"]
                /\ loc' = [loc EXCEPT ![p] =
                     [EmptyLoc EXCEPT
                        !.op = "post",
                        !.autoApprove = autoApprove(isStaffRequest),
                        !.fps = IF isStaffRequest THEN <<>> ELSE limitFingerprints(req),
                        !.newOrder = <<NewOrder(req, total, vb.breakfastMap, effectiveTableId)>>]]
                /\ UNCHANGED resp
           ELSE Respond(p, "post", Null,
                        IF stage \in {"rate", "duplicate"} THEN 429 ELSE 400, err, 0)
      /\ UNCHANGED <<orders, quantity_in_stock, ingredients, stock_transactions,
                     menu_item_ingredients, wasApproved>>

PostValidate(p, req) == PostValidateWithin(p, req, MaxOrders, MaxRecent)

\* Auto-approval: the order's rows are read back and ingredientUsage is
\* computed inside the transaction.
\* An admission that marks the staff order approved without reading back its
\* rows: no ingredient is deducted.
PostBeginWithoutUsage(p) ==
  /\ pc[p] = "post_begin"
  /\ pc' = [pc EXCEPT ![p] = "post"]
  /\ UNCHANGED <<loc, resp>>
  /\ DbUnchanged
PostBegin(p) ==
  /\ pc[p] = "post_begin"
  /\ pc' = [pc EXCEPT ![p] = "post"]
  /\ loc' = [loc EXCEPT ![p].usage =
       ingredientUsage(loc[p].newOrder[1].items, loc[p].newOrder[1].options,
                       menu_item_ingredients)]
  /\ UNCHANGED resp
  /\ DbUnchanged

PostDeduct(p) ==
  /\ pc[p] = "post"
  /\ DeductIngredient(p, "post")

\* INSERT INTO device_order_limits, one row per distinct fingerprint.
LimitRows(fps) == [n \in 1..Len(fps) |-> [device_fingerprint |-> fps[n], expired |-> FALSE]]

\* After the commit: newOrder and newNotification for a guest's order, and
\* tableStatusUpdate for a local order with a table.
PostEvents(o, order, isStaffRequest) ==
  (IF isStaffRequest THEN {} ELSE {Event("newOrder", o), Event("newNotification", o)})
  \cup (IF order.order_type = "local" /\ order.table_id # Null
          THEN {Event("tableStatusUpdate", order.table_id)} ELSE {})

\* connection.commit(): the order, its usage rows and, for an auto-approved
\* order, the deductions and approved = 1 become visible together.
PostCommit(p) ==
  LET o == Len(orders) + 1
      order == loc[p].newOrder[1]
  IN  /\ pc[p] = "post"
      /\ loc[p].usage = <<>>
      /\ orders' = Append(orders,
           IF loc[p].autoApprove
             THEN [order EXCEPT !.approved = 1, !.status = "preparing"] ELSE order)
      /\ device_order_limits' = device_order_limits \o LimitRows(loc[p].fps)
      /\ quantity_in_stock' = CommittedStock(p)
      /\ stock_transactions' = CommittedLedger(p, o)
      /\ wasApproved' = IF loc[p].autoApprove THEN wasApproved \cup {o} ELSE wasApproved
      /\ RespondWith(p, "post", o, 201, "", Len(loc[p].writes), PostEvents(o, order, loc[p].autoApprove))
      /\ UNCHANGED <<ingredients, menu_item_ingredients, tables, recentRequests>>

\* ------------------------------------------------------- deadlock detection
\* Slot p is inside a transaction and its next statement needs the row lock
\* of an ingredient that slot q holds.
WaitsFor(p, q) ==
  /\ p # q
  /\ pc[p] \in {"approve", "cancel", "post"}
  /\ loc[p].usage # <<>>
  /\ Head(loc[p].usage)[1] \in WrittenIngredients(q)

\* InnoDB rolls back one transaction of a lock-wait cycle; its query throws,
\* the handler's catch rolls back and answers 500.
DeadlockVictim(p) ==
  /\ \E q \in Procs : WaitsFor(p, q) /\ WaitsFor(q, p)
  /\ Respond(p, loc[p].op, loc[p].oid, 500, "Deadlock", Len(loc[p].writes))
  /\ RollbackBy(p)

\* ------------------------------------------------------- timers and clock
\* setTimeout(() => recentRequests.delete(orderHash), 15000)
RecentRequestExpires(h) ==
  /\ h \in recentRequests
  /\ recentRequests' = recentRequests \ {h}
  /\ UNCHANGED <<orders, quantity_in_stock, ingredients, stock_transactions,
                 menu_item_ingredients, tables, device_order_limits, pc, loc, resp,
                 wasApproved>>

\* Time passes: the oldest row that is still within the hour leaves it.
LimitExpires ==
  /\ \E n \in 1..Len(device_order_limits) : ~device_order_limits[n].expired
  /\ LET n == CHOOSE k \in 1..Len(device_order_limits) :
                /\ ~device_order_limits[k].expired
                /\ \A j \in 1..(k - 1) : device_order_limits[j].expired
     IN  device_order_limits' = [device_order_limits EXCEPT ![n].expired = TRUE]
  /\ UNCHANGED <<orders, quantity_in_stock, ingredients, stock_transactions,
                 menu_item_ingredients, tables, recentRequests, pc, loc, resp,
                 wasApproved>>

\* ------------------------------------------------------- stock routes
\* PUT /stock/menu-items/:id/ingredients/:ingredientId by an admin: the
\* quantity of an existing association is replaced (quantity > 0).
UpdateMenuItemIngredient(menuItemId, ingredientId, quantity) ==
  /\ quantity > 0
  /\ ingredientId \in ingredients
  /\ menu_item_ingredients[menuItemId][ingredientId] > 0
  /\ menu_item_ingredients[menuItemId][ingredientId] # quantity
  /\ menu_item_ingredients' =
       [menu_item_ingredients EXCEPT ![menuItemId][ingredientId] = quantity]
  /\ UNCHANGED <<orders, quantity_in_stock, ingredients, stock_transactions, tables,
                 device_order_limits, recentRequests, pc, loc, resp, wasApproved>>

\* DELETE /stock/ingredients/:id by an admin (waits for the row's lock).
DeleteIngredient(ingredientId) ==
  /\ ingredientId \in ingredients
  /\ \A q \in Procs : ingredientId \notin WrittenIngredients(q)
  /\ ingredients' = ingredients \ {ingredientId}
  /\ quantity_in_stock' = [quantity_in_stock EXCEPT ![ingredientId] = 0]
  /\ UNCHANGED <<orders, stock_transactions, menu_item_ingredients, tables,
                 device_order_limits, recentRequests, pc, loc, resp, wasApproved>>

\* ------------------------------------------------------- requests
Line(item_id, quantity, unit_price, supplement_ids) ==
  [item_id |-> item_id, quantity |-> quantity, unit_price |-> unit_price,
   supplement_ids |-> supplement_ids, supplement_id |-> Null]
BLine(breakfast_id, quantity, unit_price, option_ids) ==
  [breakfast_id |-> breakfast_id, quantity |-> quantity, unit_price |-> unit_price,
   option_ids |-> option_ids]

\* A guest's takeaway request with an empty cart; the carts below fill it.
BaseReq ==
  [isStaffRequest |-> FALSE, deviceId |-> "d1", origin |-> "ip1|ua1", session_id |-> "s1",
   items |-> <<>>, breakfastItems |-> <<>>, order_type |-> "takeaway", table_id |-> Null,
   delivery_address |-> "", promotion_id |-> Null, total_price |-> 0, notes |-> ""]

\* A: item 1 then item 2 (ingredient 1, then 2).
CartA == [BaseReq EXCEPT !.items = <<Line(1, 1, Cents(900), <<>>), Line(2, 1, Cents(400), <<>>)>>,
                         !.total_price = Cents(1300)]
\* B: item 2 then two of item 1 (ingredient 2, then 1).
CartB == [BaseReq EXCEPT !.items = <<Line(2, 1, Cents(400), <<>>), Line(1, 2, Cents(900), <<>>)>>,
                         !.total_price = Cents(2200)]
\* C: item 3, which consumes no ingredient.
CartC == [BaseReq EXCEPT !.items = <<Line(3, 1, Cents(300), <<>>)>>, !.total_price = Cents(300)]
\* D: item 1 with supplement 1, and breakfast 1 with option 2.
CartD == [BaseReq EXCEPT !.items = <<Line(1, 1, Cents(1000), <<1>>)>>,
                         !.breakfastItems = <<BLine(1, 1, Cents(1300), <<2>>)>>,
                         !.total_price = Cents(2300)]
\* E: cart C eaten at table 1.
CartE == [CartC EXCEPT !.order_type = "local", !.table_id = 1]

AsStaff(req) == [req EXCEPT !.isStaffRequest = TRUE]

\* Requests that fail one stage of the admission each.
RejectedRequests ==
  { [CartC EXCEPT !.deviceId = "not-a-uuid"],
    [CartC EXCEPT !.session_id = ""],
    [CartC EXCEPT !.items = <<>>],
    [CartC EXCEPT !.order_type = "drive-in"],
    [CartC EXCEPT !.order_type = "local"],
    [CartC EXCEPT !.order_type = "delivery"],
    [CartC EXCEPT !.items = <<Line(4, 1, Cents(200), <<>>)>>],
    [CartC EXCEPT !.items = <<Line(3, 1, Cents(300), <<1>>)>>],
    [CartC EXCEPT !.items = <<Line(3, 1, Cents(350), <<>>)>>],
    [CartC EXCEPT !.items = <<>>, !.breakfastItems = <<BLine(1, 1, Cents(1250), <<3>>)>>],
    [CartC EXCEPT !.items = <<>>, !.breakfastItems = <<BLine(1, 1, Cents(1200), <<1, 7>>)>>],
    [CartC EXCEPT !.items = <<>>, !.breakfastItems = <<BLine(1, 1, Cents(1000), <<1>>)>>],
    [CartE EXCEPT !.table_id = 9],
    [CartE EXCEPT !.table_id = 5],
    [CartE EXCEPT !.total_price = Cents(900)],
    [CartC EXCEPT !.total_price = Cents(900)] }

OrderIds == 0..MaxOrders

\* ------------------------------------------------------- specifications
\* The steps of the order handlers of slot p after the first.
Continue(p) ==
  \/ PostBegin(p)
  \/ PostDeduct(p)
  \/ PostCommit(p)
  \/ ApproveLock(p)
  \/ ApproveDeduct(p)
  \/ ApproveCommit(p)
  \/ CancelLock(p)
  \/ CancelRestore(p)
  \/ CancelCommit(p)
  \/ PutWrite(p)
  \/ Return(p)

\* A request of the staff console or of a guest arrives at slot p.
Arrive(p, Requests) ==
  \/ \E req \in Requests : PostValidate(p, req)
  \/ \E isStaff \in BOOLEAN, id \in OrderIds : ApproveRequest(p, isStaff, id)
  \/ \E isStaff \in BOOLEAN, id \in OrderIds, restoreStock \in BOOLEAN :
       CancelRequest(p, isStaff, id, restoreStock)
  \/ \E isStaff \in BOOLEAN, id \in OrderIds, approved \in 0..2 : PutRead(p, isStaff, id, approved)

\* Sequential use: one request at a time.
SeqRequests == {CartA, CartB, CartC, AsStaff(CartA), AsStaff(CartB), AsStaff(CartC)}
Next ==
  \/ Arrive(1, SeqRequests)
  \/ Continue(1)
  \/ \E h \in recentRequests : RecentRequestExpires(h)
Spec == Init /\ [][Next]_vars

\* Sequential use with the admin's stock routes between the requests.
StockRequests == {CartA, AsStaff(CartB)}
StockContinue(p) ==
  \/ PostBegin(p) \/ PostDeduct(p) \/ PostCommit(p)
  \/ ApproveLock(p) \/ ApproveDeduct(p) \/ ApproveCommit(p)
  \/ CancelLock(p) \/ CancelRestore(p) \/ CancelCommit(p)
  \/ Return(p)
StockNext ==
  \/ \E req \in StockRequests : PostValidate(1, req)
  \/ \E id \in OrderIds : ApproveRequest(1, TRUE, id)
  \/ \E id \in OrderIds, restoreStock \in BOOLEAN : CancelRequest(1, TRUE, id, restoreStock)
  \/ StockContinue(1)
  \/ \E h \in recentRequests : RecentRequestExpires(h)
  \/ \E q \in 1..MaxQty : pc[1] = "idle" /\ UpdateMenuItemIngredient(1, 1, q)
  \/ \E i \in Ing : pc[1] = "idle" /\ DeleteIngredient(i)
SpecStock == Init /\ [][StockNext]_vars

\* Two requests in flight at a time: staff admissions, approvals and
\* cancellations interleave statement by statement.
ConcRequests == {CartA, AsStaff(CartA), AsStaff(CartB)}
ConcNext ==
  \E p \in Procs :
    \/ \E req \in ConcRequests : PostValidate(p, req)
    \/ \E id \in 1..MaxOrders : ApproveRequest(p, TRUE, id)
    \/ \E id \in 1..MaxOrders, restoreStock \in BOOLEAN : CancelRequest(p, TRUE, id, restoreStock)
    \/ StockContinue(p)
    \/ DeadlockVictim(p)
    \/ \E h \in recentRequests : RecentRequestExpires(h)
SpecConc == Init /\ [][ConcNext]_vars

\* Two requests in flight at a time, PUT /orders/:id among them: its read and
\* its write are separate autocommitted statements.
PutRequests == {CartA, AsStaff(CartA)}
PutNext ==
  \E p \in Procs :
    \/ \E req \in PutRequests : PostValidate(p, req)
    \/ \E id \in 1..MaxOrders : ApproveRequest(p, TRUE, id)
    \/ \E id \in 1..MaxOrders : CancelRequest(p, TRUE, id, TRUE)
    \/ \E id \in 1..MaxOrders, approved \in {0, 1} : PutRead(p, TRUE, id, approved)
    \/ StockContinue(p)
    \/ PutWrite(p)
    \/ \E h \in recentRequests : RecentRequestExpires(h)
SpecPut == Init /\ [][PutNext]_vars

\* Guests place orders and two staff sessions approve the same pending
\* order at once: an Approve is sent for an order that is still pending,
\* while the other session is idle or inside its Approve of that order.
RaceRequests == {CartA, CartB}
RaceApprove(p, id) ==
  /\ orders[id].status = "pending"
  /\ \A q \in Procs \ {p} :
       pc[q] = "idle" \/ (pc[q] # "done" /\ loc[q].op = "approve" /\ loc[q].oid = id)
  /\ ApproveRequest(p, TRUE, id)
RaceNext ==
  \E p \in Procs :
    \/ \E req \in RaceRequests : PostValidate(p, req)
    \/ \E id \in 1..Len(orders) : RaceApprove(p, id)
    \/ PostCommit(p)
    \/ ApproveLock(p) \/ ApproveDeduct(p) \/ ApproveCommit(p)
    \/ Return(p)
    \/ \E h \in recentRequests : RecentRequestExpires(h)
SpecRace == Init /\ [][RaceNext]_vars

\* Order admission only: guests and staff send well-formed and ill-formed
\* carts one after another while the clock advances.
\* Carts whose total_price is 0.01 away from the total of their lines.
BoundaryRequests ==
  { [CartA EXCEPT !.total_price = Cents(1301)],
    [CartB EXCEPT !.total_price = Cents(2201)],
    [CartC EXCEPT !.total_price = Cents(299)] }
\* Breakfast 1 with no option, with an option of its required group, and
\* with options of the required and of the optional group.
BreakfastRequests ==
  { [CartC EXCEPT !.items = <<>>, !.breakfastItems = <<BLine(1, 1, Cents(1200), <<>>)>>,
                  !.total_price = Cents(1200)],
    [CartC EXCEPT !.items = <<>>, !.breakfastItems = <<BLine(1, 1, Cents(1200), <<1>>)>>,
                  !.total_price = Cents(1200)],
    [CartC EXCEPT !.items = <<>>, !.breakfastItems = <<BLine(1, 1, Cents(1250), <<1, 3>>)>>,
                  !.total_price = Cents(1250)] }
\* Carts that name a promotion: item 3 under the store-wide promotion 1,
\* breakfast 1 under promotion 1 at its full and at its discounted price, and
\* items 1 and 3 under promotion 2, which is scoped to item 1.
PromotionRequests ==
  { [CartC EXCEPT !.promotion_id = 1, !.total_price = Cents(270)],
    [CartC EXCEPT !.items = <<>>, !.breakfastItems = <<BLine(1, 1, Cents(1200), <<1>>)>>,
                  !.promotion_id = 1, !.total_price = Cents(1200)],
    [CartC EXCEPT !.items = <<>>, !.breakfastItems = <<BLine(1, 1, Cents(1200), <<1>>)>>,
                  !.promotion_id = 1, !.total_price = Cents(1080)],
    [CartC EXCEPT !.items = <<Line(1, 1, Cents(900), <<>>), Line(3, 1, Cents(300), <<>>)>>,
                  !.promotion_id = 2, !.total_price = Cents(750)] }
AdmitRequests ==
  RejectedRequests \cup {CartA, CartC, CartD, CartE, AsStaff(CartA), AsStaff(CartB)}
AdmitNext ==
  \/ \E req \in AdmitRequests : PostValidate(1, req)
  \/ PostBegin(1) \/ PostDeduct(1) \/ PostCommit(1)
  \/ Return(1)
  \/ \E h \in recentRequests : RecentRequestExpires(h)
  \/ LimitExpires
SpecAdmit == Init /\ [][AdmitNext]_vars

\* Rate limiting only: one guest device sends valid carts from two
\* connections at a time while the hour and the guard's 15 seconds pass.
MaxRateOrders == 3
MaxRateRecent == 2
RateRequests == {CartA, CartC}
RateNext ==
  \/ \E p \in Procs :
       \/ \E req \in RateRequests : PostValidateWithin(p, req, MaxRateOrders, MaxRateRecent)
       \/ PostCommit(p)
       \/ Return(p)
  \/ \E h \in recentRequests : RecentRequestExpires(h)
  \/ LimitExpires
SpecRate == Init /\ [][RateNext]_vars

\* Price verification only: a guest sends carts whose lines, options,
\* promotion and total are at the edges of the verifier's checks.
\* Carts of one menu-item line: two of item 1 at its price and above it,
\* item 5 at 0.01 below and above its price, an unavailable item, and a
\* supplement that item 3 does not offer.
LineRequests ==
  { [CartC EXCEPT !.items = <<Line(1, 2, Cents(900), <<>>)>>, !.total_price = Cents(1800)],
    [CartC EXCEPT !.items = <<Line(1, 2, Cents(950), <<>>)>>, !.total_price = Cents(1900)],
    [CartC EXCEPT !.items = <<Line(5, 1, Cents(199), <<>>)>>, !.total_price = Cents(200)],
    [CartC EXCEPT !.items = <<Line(5, 1, Cents(201), <<>>)>>, !.total_price = Cents(200)],
    [CartC EXCEPT !.items = <<Line(4, 1, Cents(200), <<>>)>>, !.total_price = Cents(200)],
    [CartC EXCEPT !.items = <<Line(3, 1, Cents(300), <<1>>)>>] }
PriceRequests ==
  BoundaryRequests \cup BreakfastRequests \cup PromotionRequests
    \cup { [CartC EXCEPT !.items = <<>>, !.breakfastItems = <<BLine(1, 1, Cents(1250), <<3>>)>>],
           [CartE EXCEPT !.total_price = Cents(900)] }
PriceNext ==
  \/ \E req \in PriceRequests : PostValidate(1, req)
  \/ PostCommit(1)
  \/ Return(1)
  \/ \E h \in recentRequests : RecentRequestExpires(h)
  \/ LimitExpires
SpecPrice == Init /\ [][PriceNext]_vars

\* Verification of menu-item lines only.
LineNext ==
  \/ \E req \in LineRequests : PostValidate(1, req)
  \/ PostCommit(1)
  \/ Return(1)
  \/ \E h \in recentRequests : RecentRequestExpires(h)
  \/ LimitExpires
SpecLine == Init /\ [][LineNext]_vars

\* The stock ledger on carts with supplements, breakfasts and options:
\* Q is two of breakfast 1 with option 2.  Orders are admitted from guests
\* and approved, or admitted from the staff console, one request at a time.
CartQ == [BaseReq EXCEPT !.breakfastItems = <<BLine(1, 2, Cents(1300), <<2>>)>>,
                         !.total_price = Cents(2600)]
LedgerRequests == {CartD, CartQ, AsStaff(CartD), AsStaff(CartQ)}
LedgerNext ==
  \/ \E req \in LedgerRequests : PostValidate(1, req)
  \/ \E id \in 1..MaxOrders : ApproveRequest(1, TRUE, id)
  \/ PostBegin(1) \/ PostDeduct(1) \/ PostCommit(1)
  \/ ApproveLock(1) \/ ApproveDeduct(1) \/ ApproveCommit(1)
  \/ Return(1)
  \/ \E h \in recentRequests : RecentRequestExpires(h)
SpecLedger == Init /\ [][LedgerNext]_vars

\* Stored totals only: a guest sends carts without a promotion, among them
\* one with two lines for breakfast 1 that select different options at
\* different prices.
CartM == [BaseReq EXCEPT !.breakfastItems = <<BLine(1, 1, Cents(1200), <<1>>),
                                              BLine(1, 1, Cents(1300), <<2>>)>>,
                         !.total_price = Cents(2500)]
TotalRequests == {CartA, CartB, CartD, CartQ, CartM}
TotalNext ==
  \/ \E req \in TotalRequests : PostValidate(1, req)
  \/ PostCommit(1)
  \/ Return(1)
  \/ \E h \in recentRequests : RecentRequestExpires(h)
  \/ LimitExpires
SpecTotal == Init /\ [][TotalNext]_vars

\* ------------------------------------------------------- properties
\* A slot's request returns in this step.
Returns(p) == pc[p] # "done" /\ pc'[p] = "done"
\* The step is one of slot p's handler.
Steps(p) == pc'[p] # pc[p] \/ loc'[p] # loc[p]
StockAndLedgerUnchanged ==
  quantity_in_stock' = quantity_in_stock /\ stock_transactions' = stock_transactions

\* C1: once an order has been approved (by Approve or by auto-approval at
\* creation), every later Approve of that order fails with AlreadyApproved or
\* AlreadyDeducted and leaves every quantity_in_stock and the ledger unchanged.
C1_LaterApproveFails ==
  [][\A p \in Procs :
       (Returns(p) /\ loc[p].op = "approve" /\ loc[p].oid \in wasApproved)
         => /\ resp'[p].err \in {"AlreadyApproved", "AlreadyDeducted"}
            /\ StockAndLedgerUnchanged]_vars

\* C2: in every reachable state, under any interleaving of concurrent staff
\* admissions (auto-approval), approvals and cancellations, every
\* ingredient's quantity_in_stock is at least zero.
C2_StockNonNegative == \A i \in Ing : quantity_in_stock[i] >= 0
\* Two transactions are in flight for ingredients that ran out: one was
\* refused for lack of stock while the other still holds its deduction.
C2_Witness ==
  \E p, q \in Procs :
    /\ p # q
    /\ pc[p] = "done" /\ resp[p].err = "InsufficientStock"
    /\ pc[q] \in {"approve", "post"} /\ loc[q].writes # <<>>
    /\ \E i \in Ing : quantity_in_stock[i] = 0

\* C3: an Approve that fails with IngredientNotFound or InsufficientStock is
\* all-or-nothing: no step of the call, the failing one included, changes any
\* quantity_in_stock, the ledger, or the order's approved flag and status,
\* even when earlier ingredients of the same call had sufficient stock.
C3_FailedApproveAllOrNothing ==
  [][\A p \in Procs :
       (Steps(p) /\ loc[p].op = "approve" /\ ~(Returns(p) /\ resp'[p].code = 200))
         => /\ StockAndLedgerUnchanged
            /\ orders' = orders]_vars
\* An Approve was refused on its second ingredient, after the first one had
\* been deducted inside the transaction.
C3_Witness ==
  \E p \in Procs :
    /\ pc[p] = "done" /\ resp[p].op = "approve"
    /\ resp[p].err \in {"IngredientNotFound", "InsufficientStock"}
    /\ resp[p].n > 0
    /\ orders[resp[p].oid].approved = 0 /\ orders[resp[p].oid].status = "pending"

\* Sum of the quantities of a set of ledger rows, each counted as often as
\* it occurs.
RECURSIVE LedgerSum(_)
LedgerSum(rows) ==
  IF rows = {} THEN 0
  ELSE LET t == CHOOSE r \in rows : TRUE
       IN  Abs(t.quantity) * CopiesIn(t, stock_transactions) + LedgerSum(rows \ {t})
Deducted(o, i) == LedgerSum({ t \in existingDeductions(o) : t.ingredient_id = i })
Restored(o, i) == LedgerSum({ t \in existingRestorations(o) : t.ingredient_id = i })

\* C4: when Cancel with restoreStock = true has restored stock for an order,
\* the quantity added back for every ingredient equals the quantity deducted
\* for that order, whatever happened between approval and cancellation,
\* edits of the ingredient-consumption mappings included.
C4_RestoreEqualsDeducted ==
  \A o \in 1..Len(orders) :
    existingRestorations(o) # {} => \A i \in Ing : Restored(o, i) = Deducted(o, i)

\* C5: once a restoration row exists for an order, every later Cancel with
\* restoreStock = true on that order is rejected and leaves every
\* quantity_in_stock unchanged.
C5_LaterRestoreRejected ==
  [][\A p \in Procs :
       (Returns(p) /\ loc[p].op = "cancel" /\ loc[p].restoreStock
          /\ loc[p].oid \in 1..Len(orders) /\ existingRestorations(loc[p].oid) # {})
         => /\ resp'[p].code \in {400, 429}
            /\ quantity_in_stock' = quantity_in_stock]_vars

\* Both slots hold the answer of an Approve of order o, each sent while the
\* order was pending.
BothAnswered(o) ==
  \A p \in Procs : pc[p] = "done" /\ resp[p].op = "approve" /\ resp[p].oid = o
Approvers(o) == { p \in Procs : resp[p].code = 200 }
\* Number of 'deduction' rows of order o for ingredient i.
DeductionRows(o, i) ==
  LET rows == { t \in existingDeductions(o) : t.ingredient_id = i }
  IN  IF rows = {} THEN 0
      ELSE CopiesIn(CHOOSE t \in rows : TRUE, stock_transactions) + Cardinality(rows) - 1
UsageOf(o) == ingredientUsage(orders[o].items, orders[o].options, menu_item_ingredients)
OneDeductionSet(o) ==
  \A i \in Ing : /\ DeductionRows(o, i) = (IF MapHas(UsageOf(o), i) THEN 1 ELSE 0)
                 /\ Deducted(o, i) = MapGet(UsageOf(o), i)

\* C6 as stated: of two concurrent Approve calls for the same pending order
\* exactly one returns 200 and the other 400, and exactly one set of
\* 'deduction' rows exists for the order.
C6_ExactlyOneApproves ==
  \A o \in 1..Len(orders) :
    BothAnswered(o)
      => /\ Cardinality(Approvers(o)) = 1
         /\ \A p \in Procs \ Approvers(o) : resp[p].code = 400
         /\ OneDeductionSet(o)

\* C6, amended: of two concurrent Approve calls for the same pending order at
\* most one returns 200.  If one does, the other returns 400 AlreadyApproved
\* and exactly one set of 'deduction' rows exists for the order; if none
\* does, both were refused with 400 InsufficientStock, the order is still
\* pending and nothing was deducted for it.
C6_AtMostOneApproves ==
  \A o \in 1..Len(orders) :
    BothAnswered(o)
      => \/ /\ Cardinality(Approvers(o)) = 1
            /\ \A p \in Procs \ Approvers(o) :
                 resp[p].code = 400 /\ resp[p].err = "AlreadyApproved"
            /\ OneDeductionSet(o)
            /\ orders[o].approved = 1
         \/ /\ Approvers(o) = {}
            /\ \A p \in Procs : resp[p].code = 400 /\ resp[p].err = "InsufficientStock"
            /\ orders[o].status = "pending"
            /\ \A i \in Ing : DeductionRows(o, i) = 0
\* One of the two calls approved the order, the other found it approved.
C6_Witness ==
  \E o \in 1..Len(orders) :
    /\ BothAnswered(o)
    /\ \E p, q \in Procs : resp[p].code = 200 /\ resp[p].n > 0 /\ resp[q].err = "AlreadyApproved"

\* C7: 'cancelled' is terminal: once an order's status is 'cancelled', no
\* Approve, Cancel or PUT /orders/:id changes its status or sets approved
\* back to true.
C7_CancelledIsTerminal ==
  [][\A o \in 1..Len(orders) :
       orders[o].status = "cancelled"
         => orders'[o].status = "cancelled" /\ orders'[o].approved = 0]_vars

\* C8: in every committed state an order with approved = true has status
\* preparing, ready or delivered; it is never pending or cancelled.
C8_ApprovedImpliesStatus ==
  \A o \in 1..Len(orders) :
    orders[o].approved = 1 => orders[o].status \in {"preparing", "ready", "delivered"}
\* PUT /orders/:id with approved = 1 has answered for an order that a
\* concurrent Cancel had cancelled after the PUT read it.
C8_Witness ==
  \E p \in Procs :
    /\ pc[p] = "done" /\ resp[p].op = "put" /\ resp[p].code = 200
    /\ orders[resp[p].oid].approved = 1
    /\ \E q \in Procs : pc[q] = "done" /\ resp[q].op = "cancel" /\ resp[q].code = 200
                         /\ resp[q].oid = resp[p].oid

\* A step of POST /orders by slot p other than its commit: a validation
\* step, a step inside its transaction, or the step that rejects it.
PostStep(p) ==
  /\ Steps(p)
  /\ loc[p].op = "post" \/ loc'[p].op = "post" \/ (Returns(p) /\ resp'[p].op = "post")
PostCommits(p) == Returns(p) /\ resp'[p].code = 201

\* C9: a POST /orders that is rejected (400 or 429) leaves the persisted
\* order state unchanged: no step of it adds an orders row with its items and
\* options, adds a device_order_limits usage row, or changes any
\* quantity_in_stock or the ledger.
C9_RejectedPostLeavesNoTrace ==
  [][\A p \in Procs :
       (PostStep(p) /\ ~PostCommits(p))
         => /\ orders' = orders
            /\ StockAndLedgerUnchanged
            /\ PurgeExpired(device_order_limits') = PurgeExpired(device_order_limits)]_vars
\* A staff order was refused during auto-approval after a deduction had been
\* made inside its transaction.
C9_Witness ==
  \E p \in Procs :
    /\ pc[p] = "done" /\ resp[p].op = "post" /\ resp[p].code = 400
    /\ resp[p].err = "InsufficientStock" /\ resp[p].n > 0

\* C10: a POST /orders that is rejected leaves the status of every table as
\* it was before the request.
C10_RejectedPostLeavesTable ==
  [][\A p \in Procs :
       (Returns(p) /\ resp'[p].op = "post" /\ resp'[p].code \in {400, 429})
         => tables' = tables]_vars

\* The change event e reports is part of the committed state the step leaves.
EventCommitted(e) ==
  /\ e.id \in 1..Len(orders')
  /\ e.type \in {"newOrder", "newNotification"} => e.id \notin 1..Len(orders)
  /\ e.type = "orderApproved"
       => orders'[e.id].approved = 1 /\ orders'[e.id].status = "preparing"
  /\ e.type = "orderCancelled" => orders'[e.id].status = "cancelled"
OrderEvents(events) ==
  { e \in events : e.type \in {"newOrder", "newNotification", "orderApproved", "orderCancelled"} }

\* C11: every newOrder, newNotification, orderApproved and orderCancelled
\* event emitted by order admission, Approve or Cancel reports a state change
\* that is committed when the handler has emitted it, and a handler whose
\* transaction rolled back has emitted none.
C11_EventsAfterCommit ==
  [][\A p \in Procs :
       (Returns(p) /\ resp'[p].op \in {"post", "approve", "cancel"})
         => /\ \A e \in OrderEvents(resp'[p].events) : EventCommitted(e)
            /\ resp'[p].code \notin {200, 201} => OrderEvents(resp'[p].events) = {}]_vars
\* One request has emitted orderApproved for an order it approved while
\* another was rolled back as a deadlock victim and emitted nothing.
C11_Witness ==
  \E p, q \in Procs :
    /\ pc[p] = "done" /\ resp[p].code = 200 /\ Event("orderApproved", resp[p].oid) \in resp[p].events
    /\ pc[q] = "done" /\ resp[q].code = 500 /\ resp[q].n > 0 /\ resp[q].events = {}

\* Orders of the guest device admitted within the trailing hour: each
\* admitted order left one row under the device's fingerprint.
OrdersInHour(limits, deviceId) ==
  Cardinality({ n \in 1..Len(limits) :
                  limits[n].device_fingerprint = Sha256(deviceId) /\ ~limits[n].expired })

\* C12: a guest's submission is rejected with 429 RateLimitExceeded only when
\* 3 of its orders were already admitted in the trailing hour.
C12_ThreeOrdersPerHour ==
  [][\A p \in Procs :
       (Returns(p) /\ resp'[p].op = "post" /\ resp'[p].err = "RateLimitExceeded")
         => OrdersInHour(device_order_limits', BaseReq.deviceId) >= RateLimit]_vars

\* A step of a staff-console POST /orders by slot p.
StaffPostStep(p) ==
  \/ \E req \in AdmitRequests : req.isStaffRequest /\ PostValidate(p, req)
  \/ Steps(p) /\ loc[p].op = "post" /\ loc[p].autoApprove

\* C13: a staff-console POST /orders is never rejected with
\* RateLimitExceeded, whatever device_order_limits holds, and no step of it
\* deletes or inserts a device_order_limits row.
C13_StaffBypassesRateLimit ==
  [][\A p \in Procs :
       StaffPostStep(p)
         => /\ device_order_limits' = device_order_limits
            /\ Returns(p) => resp'[p].err # "RateLimitExceeded"]_vars
\* A staff order is being admitted while the table holds an expired row and
\* rows of the last hour.
C13_Witness ==
  \E p \in Procs :
    /\ pc[p] \in {"post_begin", "post"} /\ loc[p].autoApprove
    /\ \E n \in 1..Len(device_order_limits) : device_order_limits[n].expired
    /\ \E n \in 1..Len(device_order_limits) : ~device_order_limits[n].expired

\* The request gets as far as the duplicate guard: it passes the device id
\* check, the rate limiter and the session check.
ReachesGuard(req) ==
  /\ req.isStaffRequest \/ ValidDeviceId(req.deviceId)
  /\ ~RateLimited(req.isStaffRequest,
                  orderCount(IF req.isStaffRequest THEN device_order_limits
                             ELSE PurgeExpired(device_order_limits), req))
  /\ sessionId(req) # ""

\* C14: a POST /orders that reaches the duplicate guard while its payload
\* hash is in recentRequests is answered 429 DuplicateOrder and writes
\* nothing, also while the request that set the entry is still in flight;
\* a POST that goes past the guard found the entry absent and sets it.
C14_OneProceedsPerHash ==
  [][\A p \in Procs : \A req \in ConcRequests :
       (PostValidate(p, req) /\ ReachesGuard(req))
         => IF orderHash(req) \in recentRequests
              THEN /\ Returns(p)
                   /\ resp'[p].code = 429 /\ resp'[p].err = "DuplicateOrder"
                   /\ orders' = orders /\ recentRequests' = recentRequests
              ELSE orderHash(req) \in recentRequests']_vars
\* One slot was answered DuplicateOrder while the other slot's admission,
\* which set the entry, is still inside its transaction.
C14_Witness ==
  \E p, q \in Procs :
    /\ pc[p] = "done" /\ resp[p].op = "post" /\ resp[p].err = "DuplicateOrder"
    /\ pc[q] \in {"post_begin", "post"}
    /\ recentRequests # {}

\* The sum over the cart's lines of quantity times verified unit total, when
\* every line passes its verification; -1 when a line is rejected.
VerifiedTotal(req) ==
  LET vi == VerifyItems(req.items, 0)
      vb == VerifyBreakfasts(req.breakfastItems, vi.total, <<>>)
  IN  IF vi.err = "" /\ vb.err = "" THEN vb.total ELSE 0 - 1

\* C15: for a cart without a promotion whose lines all pass verification, the
\* request gets past the total check if and only if total_price is within
\* 0.01 of the total of its lines; otherwise it is rejected with
\* TotalPriceMismatch and nothing is persisted.
C15_TotalWithinTolerance ==
  [][\A p \in Procs : \A req \in PriceRequests :
       (PostValidate(p, req) /\ req.promotion_id = Null /\ VerifiedTotal(req) >= 0)
         => LET within == Abs(req.total_price - VerifiedTotal(req)) <= Tolerance
            IN  /\ within => ~(Returns(p) /\ resp'[p].err = "TotalPriceMismatch")
                /\ ~within => Returns(p)
                /\ (Returns(p) /\ resp'[p].err = "TotalPriceMismatch")
                     => /\ orders' = orders /\ StockAndLedgerUnchanged
                        /\ tables' = tables]_vars

\* The request's only breakfast line gets as far as the option-group check:
\* the request passes the admission guards and the menu-item lines, the line
\* is well formed, its breakfast is on sale and its option IDs are all found.
ReachesGroupCheck(req) ==
  /\ ReachesGuard(req) /\ orderHash(req) \notin recentRequests /\ ~ShapeError(req)
  /\ VerifyItems(req.items, 0).err = ""
  /\ Len(req.breakfastItems) = 1
  /\ LET item == req.breakfastItems[1]
     IN  /\ item.breakfast_id \in DOMAIN breakfasts /\ breakfasts[item.breakfast_id].availability
         /\ item.quantity > 0 /\ item.unit_price > 0
         /\ \A n \in 1..Len(item.option_ids) :
              \E bo \in breakfast_options :
                bo.id = item.option_ids[n] /\ bo.breakfast_id \in {item.breakfast_id, Null}
         /\ \A m, n \in 1..Len(item.option_ids) : item.option_ids[m] = item.option_ids[n] => m = n
\* The required option groups of a breakfast, its own and the mapped ones.
RequiredGroups(breakfast_id) ==
  { g \in breakfast_option_groups :
      /\ g.is_required
      /\ \/ g.breakfast_id = breakfast_id
         \/ \E bogm \in breakfast_option_group_mappings :
              bogm.breakfast_id = breakfast_id /\ bogm.option_group_id = g.id }
Offered(g) == \E bo \in breakfast_options : bo.group_id = g.id
Selected(g, option_ids) ==
  \E bo \in breakfast_options : bo.group_id = g.id /\ bo.id \in SeqToSet(option_ids)
MissingRequiredGroup(p) == Returns(p) /\ resp'[p].err = "MissingRequiredGroup"

\* C16 as stated: a breakfast line with valid option IDs passes the group
\* check if and only if every required group of the breakfast contains a
\* selected option (so optional groups do not matter, and a line with no
\* option IDs is rejected whenever the breakfast has a required group).
C16_EveryRequiredGroupSelected ==
  [][\A p \in Procs : \A req \in PriceRequests :
       (PostValidate(p, req) /\ ReachesGroupCheck(req))
         => (~MissingRequiredGroup(p)
               <=> \A g \in RequiredGroups(req.breakfastItems[1].breakfast_id) :
                     Selected(g, req.breakfastItems[1].option_ids))]_vars
\* C16: a breakfast line with valid option IDs passes the group check if and
\* only if every required group of the breakfast that has at least one option
\* contains a selected option; options of optional groups never change the
\* outcome, and a line with no option IDs is rejected whenever the breakfast
\* has a required group with at least one option.
C16_EveryOfferedRequiredGroupSelected ==
  [][\A p \in Procs : \A req \in PriceRequests :
       (PostValidate(p, req) /\ ReachesGroupCheck(req))
         => (~MissingRequiredGroup(p)
               <=> \A g \in RequiredGroups(req.breakfastItems[1].breakfast_id) :
                     Offered(g) => Selected(g, req.breakfastItems[1].option_ids))]_vars
\* A breakfast was admitted with an option of the optional group next to one
\* of the required group, and a later breakfast line was refused for its
\* missing required group.
C16_Witness ==
  /\ \E o \in 1..Len(orders) : {1, 3} \subseteq SeqToSet(orders[o].options)
  /\ pc[1] = "done" /\ resp[1].err = "MissingRequiredGroup"

\* The cart total with the promotion's discount on every line it covers:
\* every line for a store-wide promotion, the lines of its item otherwise.
Discounted(amount, promo) == (amount * (100 - promo.discount_percentage)) \div 100
RECURSIVE ItemLinesTotal(_, _)
ItemLinesTotal(items, promo) ==
  IF items = <<>> THEN 0
  ELSE LET item == Head(items)
           amount == (BasePrice(menu_items[item.item_id])
                        + SumAdditional(FoundSupplements(item.item_id, supplementIds(item))))
                       * item.quantity
       IN  (IF promo.item_id = Null \/ promo.item_id = item.item_id
              THEN Discounted(amount, promo) ELSE amount)
             + ItemLinesTotal(Tail(items), promo)
RECURSIVE BreakfastLinesTotal(_, _)
BreakfastLinesTotal(breakfastItems, promo) ==
  IF breakfastItems = <<>> THEN 0
  ELSE LET item == Head(breakfastItems)
           amount == (breakfasts[item.breakfast_id].price
                        + SumAdditional(FoundOptions(item.breakfast_id, item.option_ids)))
                       * item.quantity
       IN  (IF promo.item_id = Null THEN Discounted(amount, promo) ELSE amount)
             + BreakfastLinesTotal(Tail(breakfastItems), promo)

\* C17: with an active promotion the total the cart is checked against
\* discounts every line, menu items and breakfasts alike, when the promotion
\* is store-wide, and only the lines of the promotion's item when it is
\* item-scoped: a cart is admitted only with a total_price within 0.01 of
\* that total, and is refused with TotalPriceMismatch only outside of it.
C17_PromotionDiscountsLines ==
  [][\A p \in Procs : \A req \in PriceRequests : \A promo \in promotions :
       (PostValidate(p, req) /\ req.promotion_id = promo.id /\ VerifiedTotal(req) >= 0)
         => LET total == ItemLinesTotal(req.items, promo)
                           + BreakfastLinesTotal(req.breakfastItems, promo)
            IN  /\ ~Returns(p) => Abs(req.total_price - total) <= Tolerance
                /\ (Returns(p) /\ resp'[p].err = "TotalPriceMismatch")
                     => Abs(req.total_price - total) >= Tolerance]_vars

\* C18: a staff-console POST /orders is atomic.  When it returns 201 the
\* order exists with status 'preparing', approved = 1 and all its items, one
\* 'deduction' row per consumed ingredient, and the stock reduced by what the
\* order consumes; every other step of it, the one that refuses it with
\* InsufficientStock or IngredientNotFound included, leaves the orders, the
\* stock and the ledger as they were.
C18_AutoApprovedAdmissionAtomic ==
  [][\A p \in Procs :
       (Steps(p) /\ loc[p].op = "post" /\ loc[p].autoApprove)
         => IF Returns(p) /\ resp'[p].code = 201
              THEN LET o == resp'[p].oid
                   IN  /\ o = Len(orders) + 1 /\ Len(orders') = o
                       /\ orders'[o].status = "preparing" /\ orders'[o].approved = 1
                       /\ orders'[o].items = loc[p].newOrder[1].items
                       /\ orders'[o].items # <<>>
                       /\ OneDeductionSet(Len(orders))'
                       /\ \A i \in Ing :
                            quantity_in_stock'[i] =
                              quantity_in_stock[i] - MapGet(UsageOf(Len(orders)), i)'
              ELSE /\ orders' = orders /\ StockAndLedgerUnchanged
                   /\ Returns(p) => resp'[p].err \in {"InsufficientStock", "IngredientNotFound"}]_vars
\* A staff order was admitted with its deductions, and a later staff order
\* was refused after a deduction had been made inside its transaction.
C18_Witness ==
  \E p \in Procs :
    /\ pc[p] = "done" /\ resp[p].op = "post" /\ resp[p].n > 0
    /\ resp[p].err \in {"InsufficientStock", "IngredientNotFound"}
    /\ \E o \in 1..Len(orders) :
         /\ orders[o].approved = 1 /\ orders[o].status = "preparing"
         /\ existingDeductions(o) # {} /\ existingRestorations(o) = {}

\* Slot p's Cancel with restoreStock = true takes the lock of an approved
\* order that is not cancelled and has a restoration row in the ledger.
CancelOfRestoredOrder(p) ==
  /\ pc[p] = "cancel_lock" /\ Steps(p)
  /\ loc[p].restoreStock
  /\ loc[p].oid \in 1..Len(orders)
  /\ orders[loc[p].oid].approved = 1 /\ orders[loc[p].oid].status # "cancelled"
  /\ \E t \in BagToSet(stock_transactions) :
       t.order_id = loc[p].oid /\ t.reason = RestorationReason

\* C19: Cancel with restoreStock = true on an approved order that is not
\* cancelled and already has a restoration row fails with AlreadyRestored,
\* and the cancellation is aborted as a whole: the order's status and
\* approved flag, every quantity_in_stock and the ledger stay as they were.
C19_AlreadyRestoredAborts ==
  [][\A p \in Procs :
       CancelOfRestoredOrder(p)
         => /\ Returns(p)
            /\ resp'[p].code = 400 /\ resp'[p].err = "AlreadyRestored"
            /\ orders' = orders
            /\ StockAndLedgerUnchanged]_vars
\* A Cancel was answered AlreadyRestored and its order is still approved and
\* in preparation.
C19_Witness ==
  \E p \in Procs :
    /\ pc[p] = "done" /\ resp[p].op = "cancel" /\ resp[p].err = "AlreadyRestored"
    /\ orders[resp[p].oid].approved = 1 /\ orders[resp[p].oid].status = "preparing"

\* C20: stock-ledger transactions of different orders that overlap in their
\* ingredients serialize on the ingredient row locks without a circular wait:
\* no two transactions ever wait for a row the other has locked, and none is
\* ended by the database as the victim of a deadlock.
C20_NoCircularWait ==
  /\ \A p, q \in Procs : ~(WaitsFor(p, q) /\ WaitsFor(q, p))
  /\ \A p \in Procs : pc[p] = "done" => resp[p].err # "Deadlock"

\* What the lines of an order consume of ingredient i: per line the mapping
\* quantities of its menu item, its primary supplement and its breakfast
\* times the line's quantity, and per selected option its mapping quantity.
RECURSIVE LinesConsume(_, _)
LinesConsume(orderItems, i) ==
  IF orderItems = <<>> THEN 0
  ELSE LET item == Head(orderItems)
       IN  (IF item.item_id # Null THEN menu_item_ingredients[item.item_id][i] ELSE 0)
               * item.quantity
           + (IF item.supplement_id # Null
                THEN supplement_ingredients[item.supplement_id][i] ELSE 0) * item.quantity
           + (IF item.breakfast_id # Null
                THEN breakfast_ingredients[item.breakfast_id][i] ELSE 0) * item.quantity
           + LinesConsume(Tail(orderItems), i)
RECURSIVE OptionsConsume(_, _)
OptionsConsume(breakfastOptions, i) ==
  IF breakfastOptions = <<>> THEN 0
  ELSE breakfast_option_ingredients[Head(breakfastOptions)][i]
         + OptionsConsume(Tail(breakfastOptions), i)
Consumes(o, i) == LinesConsume(orders[o].items, i) + OptionsConsume(orders[o].options, i)

\* C21: an approval takes from every ingredient the merged total its order
\* consumes (mapping quantity times line quantity for menu items, primary
\* supplements and breakfasts, each selected option once), and writes exactly
\* one 'deduction' row with the negated total per consumed ingredient.
C21_DeductionFormula ==
  [][\A p \in Procs : \A o \in 1..MaxOrders :
       (Returns(p) /\ loc[p].op = "approve" /\ loc[p].oid = o /\ resp'[p].code = 200)
         => \A i \in Ing :
              /\ quantity_in_stock'[i] = quantity_in_stock[i] - Consumes(o, i)
              /\ DeductionRows(o, i)' = (IF Consumes(o, i) > 0 THEN 1 ELSE 0)
              /\ \A t \in existingDeductions(o)' :
                   t.ingredient_id = i => t.quantity = 0 - Consumes(o, i)]_vars
\* An order of two breakfasts with one option was approved: the breakfast's
\* ingredient was taken twice and the option's ingredient once.
C21_Witness ==
  \E p \in Procs :
    /\ pc[p] = "done" /\ resp[p].op = "approve" /\ resp[p].code = 200
    /\ orders[resp[p].oid].options # <<>>
    /\ \E n \in 1..Len(orders[resp[p].oid].items) : orders[resp[p].oid].items[n].quantity = 2
    /\ quantity_in_stock[1] = MaxStock - 2 /\ quantity_in_stock[2] = MaxStock - 1

\* What an order with these rows consumes of ingredient i.
Needs(order, i) == LinesConsume(order.items, i) + OptionsConsume(order.options, i)
\* The outcome of the stock algorithm for order o with these rows, as the
\* step in which slot p returns shows it: with enough of every ingredient the
\* request succeeds, each stock is reduced, one 'deduction' row per consumed
\* ingredient exists and the order is approved and in preparation; otherwise
\* the request fails with InsufficientStock and stock and ledger are as before.
LedgerOutcome(p, o, order) ==
  IF \A i \in Ing : quantity_in_stock[i] >= Needs(order, i)
    THEN /\ resp'[p].code \in {200, 201}
         /\ \A i \in Ing :
              /\ quantity_in_stock'[i] = quantity_in_stock[i] - Needs(order, i)
              /\ DeductionRows(o, i)' = (IF Needs(order, i) > 0 THEN 1 ELSE 0)
              /\ Deducted(o, i)' = Needs(order, i)
         /\ orders'[o].status = "preparing" /\ orders'[o].approved = 1
         /\ orders'[o].items = order.items /\ orders'[o].options = order.options
    ELSE /\ resp'[p].code = 400 /\ resp'[p].err = "InsufficientStock"
         /\ StockAndLedgerUnchanged

\* C22: auto-approval at admission and explicit approval run the same stock
\* algorithm.  A staff-console admission of a cart, and the Approve of a
\* pending order with the same rows, end in the same outcome for the same
\* mappings and stock: the same quantities, the same 'deduction' rows, the
\* same status and approved flag of the approved order, and success or
\* InsufficientStock alike.
C22_AutoApprovalAsApprove ==
  [][\A p \in Procs : \A o \in 1..MaxOrders :
       /\ (Returns(p) /\ loc[p].op = "post" /\ loc[p].autoApprove /\ o = Len(orders) + 1)
            => LedgerOutcome(p, o, loc[p].newOrder[1])
       /\ (Returns(p) /\ loc[p].op = "approve" /\ loc[p].oid = o /\ pc[p] = "approve")
            => LedgerOutcome(p, o, orders[o])]_vars
\* An order was approved with its deductions, and a staff-console admission
\* that followed was refused for its stock and left no order.
C22_Witness ==
  /\ Len(orders) = 1
  /\ orders[1].approved = 1 /\ existingDeductions(1) # {}
  /\ pc[1] = "done" /\ resp[1].op = "post" /\ resp[1].err = "InsufficientStock"

\* C23: a step of Cancel changes a quantity_in_stock or the ledger only when
\* restoreStock is true, the order is approved, a 'deduction' row exists for
\* it and no restoration row does; a Cancel that succeeds leaves the order
\* cancelled with approved = 0, restored or not.
C23_CancelRestoresUnderGuards ==
  [][\A p \in Procs : \A o \in 1..MaxOrders :
       (Steps(p) /\ loc[p].op = "cancel" /\ loc[p].oid = o)
         => /\ ~StockAndLedgerUnchanged
                 => /\ loc[p].restoreStock
                    /\ orders[o].approved = 1
                    /\ existingDeductions(o) # {}
                    /\ existingRestorations(o) = {}
            /\ (Returns(p) /\ resp'[p].code = 200)
                 => orders'[o].status = "cancelled" /\ orders'[o].approved = 0]_vars
\* A Cancel with restoreStock = true of an order that was never approved
\* holds the order's lock and has nothing to restore.
C23_Witness ==
  \E p \in Procs :
    /\ pc[p] = "cancel" /\ loc[p].restoreStock
    /\ loc[p].usage = <<>> /\ loc[p].writes = <<>>
    /\ orders[loc[p].oid].approved = 0 /\ orders[loc[p].oid].status = "pending"
    /\ loc[p].oid \notin wasApproved

\* The request's only cart line is a menu-item line that gets as far as the
\* price verifier and is well formed.
ReachesItemCheck(req) ==
  /\ ReachesGuard(req) /\ orderHash(req) \notin recentRequests /\ ~ShapeError(req)
  /\ Len(req.items) = 1 /\ req.breakfastItems = <<>> /\ req.promotion_id = Null
  /\ req.items[1].item_id > 0 /\ req.items[1].quantity > 0 /\ req.items[1].unit_price > 0
\* Sale price if set, else regular price, plus the supplements' prices.
ExpectedUnitTotal(item) ==
  BasePrice(menu_items[item.item_id])
    + SumAdditional({ r \in menu_item_supplements :
                        /\ r.menu_item_id = item.item_id
                        /\ r.supplement_id \in SeqToSet(item.supplement_ids) })
LineAcceptable(item) ==
  /\ item.item_id \in DOMAIN menu_items /\ menu_items[item.item_id].availability
  /\ \A n \in 1..Len(item.supplement_ids) :
       \E r \in menu_item_supplements :
         r.menu_item_id = item.item_id /\ r.supplement_id = item.supplement_ids[n]
  /\ Abs(item.unit_price - ExpectedUnitTotal(item)) <= Tolerance

\* C24: a menu-item cart line passes price verification if and only if the
\* item exists and is available, every requested supplement has a row for the
\* item, and unit_price is within 0.01 of the sale or regular price plus the
\* supplements' prices; an accepted line contributes that unit total times
\* its quantity.
C24_ItemLineVerified ==
  [][\A p \in Procs : \A req \in LineRequests :
       (PostValidate(p, req) /\ ReachesItemCheck(req))
         => /\ LineAcceptable(req.items[1])
                 <=> ~(Returns(p) /\ resp'[p].err \in
                         {"ItemUnavailable", "InvalidSupplement", "PriceMismatch"})
            /\ ~Returns(p)
                 => loc'[p].newOrder[1].total_price
                      = ExpectedUnitTotal(req.items[1]) * req.items[1].quantity]_vars

\* C25: a guest's POST /orders that succeeds creates the order with status
\* 'pending' and approved = 0, and no step of it changes a quantity_in_stock
\* or writes a stock_transactions row.
C25_GuestOrderLeavesStock ==
  [][\A p \in Procs : \A o \in 1..MaxOrders :
       (Steps(p) /\ loc[p].op = "post" /\ loc[p].fps # <<>>)
         => /\ StockAndLedgerUnchanged
            /\ (Returns(p) /\ resp'[p].code = 201 /\ o = Len(orders) + 1)
                 => orders'[o].status = "pending" /\ orders'[o].approved = 0]_vars
\* A guest's order of items that consume ingredients was admitted and is
\* pending; no stock has moved for it.
C25_Witness ==
  \E p \in Procs :
    /\ pc[p] = "done" /\ resp[p].op = "post" /\ resp[p].code = 201
    /\ Event("newOrder", resp[p].oid) \in resp[p].events
    /\ orders[resp[p].oid].status = "pending"
    /\ \E i \in Ing : Consumes(resp[p].oid, i) > 0
    /\ existingDeductions(resp[p].oid) = {}

\* Sum of the signed quantities of a set of ledger rows, each counted as
\* often as it occurs.
RECURSIVE SignedSum(_)
SignedSum(rows) ==
  IF rows = {} THEN 0
  ELSE LET t == CHOOSE r \in rows : TRUE
       IN  t.quantity * CopiesIn(t, stock_transactions) + SignedSum(rows \ {t})
LedgerOf(i) == { t \in BagToSet(stock_transactions) : t.ingredient_id = i }

\* C26: with admissions, approvals and cancellations only, every
\* ingredient's quantity_in_stock is its initial quantity plus the sum of the
\* quantities of the stock_transactions rows recorded for it (deductions
\* negative, restorations positive).
C26_StockMatchesLedger ==
  \A i \in Ing : quantity_in_stock[i] = MaxStock + SignedSum(LedgerOf(i))
\* One order's stock has been restored by its cancellation while another
\* order's deduction stands.
C26_Witness ==
  /\ \E o \in 1..Len(orders) : existingRestorations(o) # {}
  /\ \E o \in 1..Len(orders) : existingDeductions(o) # {} /\ existingRestorations(o) = {}
  /\ \E i \in Ing : quantity_in_stock[i] < MaxStock

\* C27: a POST /orders that is answered 400 by the cart-shape validation,
\* the price verification or the table checks leaves no entry for its
\* payload in the duplicate guard, so the same payload sent again within the
\* guard's 15 seconds is not answered DuplicateOrder.
C27_RejectedLeavesNoGuardEntry ==
  [][\A p \in Procs : \A req \in LineRequests :
       (PostValidate(p, req) /\ ReachesGuard(req) /\ Returns(p) /\ resp'[p].code = 400)
         => orderHash(req) \notin recentRequests']_vars

\* C28: every order with approved = 1 whose lines consume an ingredient has
\* a 'deduction' row for it in stock_transactions; no operation sets
\* approved = 1 without the deduction.
C28_ApprovedHasDeduction ==
  \A o \in 1..Len(orders) : \A i \in Ing :
    (orders[o].approved = 1 /\ Consumes(o, i) > 0) => DeductionRows(o, i) > 0

\* Orders one device can have admitted within an hour when its requests are
\* handled one after the other: an order is admitted while fewer than
\* RateLimit rows are counted, and leaves one row per fingerprint.
SequentialAdmissions(req) == (RateLimit - 1) \div Len(limitFingerprints(req)) + 1

\* C29: with POST /orders requests of one device and origin in flight
\* together, the orders admitted within an hour never exceed the number
\* admitted when the same requests are submitted one after the other.
C29_ConcurrentWithinSequentialLimit ==
  OrdersInHour(device_order_limits, BaseReq.deviceId) <= SequentialAdmissions(BaseReq)

\* Sum of quantity * unit_price over an order's order_items rows, and the
\* number of units they hold.
RECURSIVE OrderItemsTotal(_)
OrderItemsTotal(items) ==
  IF items = <<>> THEN 0
  ELSE Head(items).quantity * Head(items).unit_price + OrderItemsTotal(Tail(items))
RECURSIVE OrderItemsUnits(_)
OrderItemsUnits(items) ==
  IF items = <<>> THEN 0 ELSE Head(items).quantity + OrderItemsUnits(Tail(items))

\* C30: for an order admitted without a promotion the stored total_price
\* equals the sum of quantity * unit_price over its order_items rows, up to
\* 0.01 per unit, also when cart lines for the same breakfast_id with
\* different unit prices or options were merged into one row.
C30_TotalMatchesOrderItems ==
  \A o \in 1..Len(orders) :
    Abs(orders[o].total_price - OrderItemsTotal(orders[o].items))
      <= Tolerance * OrderItemsUnits(orders[o].items)

====
